---- MODULE Spec2Model ----
(***************************************************************************)
(* The chat and exam-summary gateway of the CMRIT portal backend           *)
(* (src/chatbot.js, src/unnamed/part_000, the embedded /api/chat of        *)
(* src/club.js): the retry-delay parser, the error classifier, the query   *)
(* extractor and the request handlers, as a state machine of one request.  *)
(*                                                                         *)
(* Text is a sequence of one-character strings, so that trim, includes     *)
(* and the regular expressions of the source are computed, not assumed.    *)
(* A JavaScript value is a record [t, v]: t is its type tag, v its payload.*)
(***************************************************************************)
EXTENDS Integers, Sequences, FiniteSets, TLC

\* ------------------------------------------------------------------ bounds

\* Longest provider detail list enumerated for the parser.
MaxDetails == 2

\* ------------------------------------------------------- JavaScript values

Undefined == [t |-> "undefined", v |-> <<>>]
Null == [t |-> "null", v |-> <<>>]
Str(s) == [t |-> "string", v |-> s]
Num(n) == [t |-> "number", v |-> n]
Arr(xs) == [t |-> "array", v |-> xs]

\* ToBoolean: undefined, null, "" and 0 are falsy; arrays and objects are truthy.
Truthy(x) ==
  CASE x.t = "undefined" -> FALSE
    [] x.t = "null" -> FALSE
    [] x.t = "string" -> x.v # <<>>
    [] x.t = "number" -> x.v # 0
    [] OTHER -> TRUE

\* a || b
Or(a, b) == IF Truthy(a) THEN a ELSE b

\* a ?? b
Coalesce(a, b) == IF a.t \in {"undefined", "null"} THEN b ELSE a

\* --------------------------------------------------------------- characters

Digits == <<"0","1","2","3","4","5","6","7","8","9">>
LowerLetters == <<"a","b","c","d","e","f","g","h","i","j","k","l","m","n","o","p","q","r","s","t","u","v","w","x","y","z">>
UpperLetters == <<"A","B","C","D","E","F","G","H","I","J","K","L","M","N","O","P","Q","R","S","T","U","V","W","X","Y","Z">>

Range(f) == {f[i] : i \in DOMAIN f}
IndexIn(c, alphabet) == CHOOSE i \in DOMAIN alphabet : alphabet[i] = c

IsDigit(c) == c \in Range(Digits)
IsLower(c) == c \in Range(LowerLetters)
IsUpper(c) == c \in Range(UpperLetters)
IsLetter(c) == IsLower(c) \/ IsUpper(c)
\* \w of a JavaScript regular expression
IsWordChar(c) == IsLetter(c) \/ IsDigit(c) \/ c = "_"
\* \s, and the characters String.prototype.trim strips
IsSpace(c) == c \in {" ", "\t", "\n"}

DigitValue(c) == IndexIn(c, Digits) - 1
ToLowerChar(c) == IF IsUpper(c) THEN LowerLetters[IndexIn(c, UpperLetters)] ELSE c
ToUpperChar(c) == IF IsLower(c) THEN UpperLetters[IndexIn(c, LowerLetters)] ELSE c

\* String.prototype.toLowerCase / toUpperCase
ToLowerCase(s) == [i \in DOMAIN s |-> ToLowerChar(s[i])]
ToUpperCase(s) == [i \in DOMAIN s |-> ToUpperChar(s[i])]

\* String.prototype.trim
Trim(s) ==
  LET keep == {i \in DOMAIN s : ~IsSpace(s[i])}
  IN IF keep = {} THEN <<>>
     ELSE LET lo == CHOOSE i \in keep : \A j \in keep : i <= j
              hi == CHOOSE i \in keep : \A j \in keep : j <= i
          IN SubSeq(s, lo, hi)

\* String.prototype.includes
Includes(s, sub) ==
  \E i \in 0..(Len(s) - Len(sub)) : SubSeq(s, i + 1, i + Len(sub)) = sub

AllDigits(s) == \A i \in DOMAIN s : IsDigit(s[i])

\* ------------------------------------------------ IEEE-754 double arithmetic
\* Number(text) * 1000 and Math.ceil work on doubles.  A 53-bit significand
\* does not fit a machine integer, so naturals are held as little-endian
\* sequences of base-10000 limbs; a double is <<m, s>>, the value m / 2^s with
\* m = 0 or 2^52 <= m < 2^53.

LimbBase == 10000
TwoPow52 == <<496, 2737, 5996, 4503>>
TwoPow53 == <<992, 5474, 1992, 9007>>

RECURSIVE BigNorm(_)
BigNorm(a) ==
  IF a # <<>> /\ a[Len(a)] = 0 THEN BigNorm(SubSeq(a, 1, Len(a) - 1)) ELSE a

\* a * k + carry, limb by limb, for small k and carry
RECURSIVE BigMulCarry(_, _, _)
BigMulCarry(a, k, carry) ==
  IF a = <<>> THEN (IF carry = 0 THEN <<>> ELSE <<carry>>)
  ELSE LET x == Head(a) * k + carry
       IN <<x % LimbBase>> \o BigMulCarry(Tail(a), k, x \div LimbBase)

BigMulSmall(a, k) == BigNorm(BigMulCarry(a, k, 0))
BigAddOne(a) == BigNorm(BigMulCarry(a, 1, 1))

\* <<a div d, a mod d>> for a small d, from the most significant limb down
RECURSIVE BigDivRem(_, _, _)
BigDivRem(a, d, rem) ==
  IF a = <<>> THEN <<(<<>>), rem>>
  ELSE LET x == rem * LimbBase + a[Len(a)]
           rest == BigDivRem(SubSeq(a, 1, Len(a) - 1), d, x % d)
       IN <<rest[1] \o <<x \div d>>, rest[2]>>

BigDivMod(a, d) ==
  LET r == BigDivRem(a, d, 0) IN <<BigNorm(r[1]), r[2]>>

RECURSIVE BigLess(_, _)
BigLess(a, b) ==
  IF Len(a) # Len(b) THEN Len(a) < Len(b)
  ELSE IF a = <<>> THEN FALSE
  ELSE IF a[Len(a)] # b[Len(b)] THEN a[Len(a)] < b[Len(b)]
  ELSE BigLess(SubSeq(a, 1, Len(a) - 1), SubSeq(b, 1, Len(b) - 1))

RECURSIVE BigToInt(_)
BigToInt(a) == IF a = <<>> THEN 0 ELSE a[1] + LimbBase * BigToInt(Tail(a))

\* the natural written by a string of decimal digits
RECURSIVE BigFromDigits(_)
BigFromDigits(ds) ==
  IF ds = <<>> THEN <<>>
  ELSE BigNorm(BigMulCarry(BigFromDigits(SubSeq(ds, 1, Len(ds) - 1)), 10, DigitValue(ds[Len(ds)])))

RECURSIVE Pow(_, _)
Pow(b, e) == IF e = 0 THEN 1 ELSE b * Pow(b, e - 1)

\* round-to-nearest, ties-to-even, of q + rem/d to a significand; a carry out
\* of the 53 bits renormalizes to 2^52 with one binary place fewer
RoundToDouble(q, rem, d, s) ==
  LET up == 2 * rem > d \/ (2 * rem = d /\ q # <<>> /\ q[1] % 2 = 1)
      m == IF up THEN BigAddOne(q) ELSE q
  IN IF m = TwoPow53 THEN <<TwoPow52, s - 1>> ELSE <<m, s>>

\* the double nearest to x / d: double x until the quotient has 53 bits
RECURSIVE ScaleToDouble(_, _, _)
ScaleToDouble(x, d, s) ==
  LET qr == BigDivMod(x, d)
  IN IF BigLess(qr[1], TwoPow52) THEN ScaleToDouble(BigMulSmall(x, 2), d, s + 1)
     ELSE RoundToDouble(qr[1], qr[2], d, s)

\* Number(text) for text matching \d+(\.\d+)?, given as integer and fraction digits
NumberOf(intDigits, fracDigits) ==
  LET n == BigFromDigits(intDigits \o fracDigits)
  IN IF n = <<>> THEN <<(<<>>), 0>>
     ELSE ScaleToDouble(n, Pow(10, Len(fracDigits)), 0)

\* x * 1000 on doubles: the exact product has 9 or 10 bits too many
TimesThousand(x) ==
  IF x[1] = <<>> THEN x
  ELSE LET p == BigMulSmall(x[1], 1000)
           r == IF BigLess(BigDivMod(p, 512)[1], TwoPow53) THEN 9 ELSE 10
           qr == BigDivMod(p, Pow(2, r))
       IN RoundToDouble(qr[1], qr[2], Pow(2, r), x[2] - r)

\* <<floor(m / 2^s), whether a remainder was dropped>>
RECURSIVE BigShiftRight(_, _, _)
BigShiftRight(m, s, sticky) ==
  IF s = 0 \/ m = <<>> THEN <<m, sticky>>
  ELSE LET qr == BigDivMod(m, 2)
       IN BigShiftRight(qr[1], s - 1, sticky \/ qr[2] # 0)

\* Math.ceil of a non-negative double below 2^31, as an integer
MathCeil(x) ==
  LET fl == BigShiftRight(x[1], x[2], FALSE)
  IN BigToInt(fl[1]) + (IF fl[2] THEN 1 ELSE 0)

\* ------------------------------------------------------- RetryDelayParser

RetryInfoType == "type.googleapis.com/google.rpc.RetryInfo"
QuotaFailureType == "type.googleapis.com/google.rpc.QuotaFailure"

\* An entry of a provider detail list: an object with "@type" and retryDelay
\* (atype "" when the object has no "@type"), or null.
Entry(atype, retryDelay) == [t |-> "object", atype |-> atype, retryDelay |-> retryDelay]
NullEntry == [t |-> "null", atype |-> "", retryDelay |-> Undefined]

\* An error value as the catch blocks probe it with err?.field.
\* response_data_error_details and error_details are the values of the chains
\* err?.response?.data?.error?.details and err?.error?.details.  Every field of
\* a thrown null or of a thrown primitive reads as undefined.
ErrorValue(status, code, message, errorDetails, details, rded, ed) ==
  [kind |-> "object", status |-> status, code |-> code, message |-> message,
   errorDetails |-> errorDetails, details |-> details,
   response_data_error_details |-> rded, error_details |-> ed]

NonObjectError(kind) ==
  [kind |-> kind, status |-> Undefined, code |-> Undefined, message |-> Undefined,
   errorDetails |-> Undefined, details |-> Undefined,
   response_data_error_details |-> Undefined, error_details |-> Undefined]

Min(S) == CHOOSE x \in S : \A y \in S : x <= y
Max(S) == CHOOSE x \in S : \A y \in S : y <= x

\* text.match(/^(\d+(?:\.\d+)?)s$/i): whether it matches, and the digits of group 1
DurationMatch(text) ==
  LET n == Len(text)
      body == SubSeq(text, 1, n - 1)
      dots == {i \in DOMAIN body : body[i] = "."}
      int == IF dots = {} THEN body ELSE SubSeq(body, 1, Min(dots) - 1)
      frac == IF dots = {} THEN <<>> ELSE SubSeq(body, Min(dots) + 1, Len(body))
  IN [ok |-> /\ n >= 2
             /\ ToLowerChar(text[n]) = "s"
             /\ int # <<>> /\ AllDigits(int)
             /\ (dots # {} => frac # <<>> /\ AllDigits(frac)),
      int |-> int, frac |-> frac]

\* the callback of details.find
IsRetryInfoEntry(d) ==
  d.t = "object" /\ d.atype = RetryInfoType /\ d.retryDelay.t = "string"

\* the detail list the parser reads: the first truthy of four locations, else []
DetailsOf(err) ==
  Or(Or(Or(Or(err.errorDetails, err.details), err.response_data_error_details),
        err.error_details), Arr(<<>>))

\* from the entry that find returned to the milliseconds
DelayOfMatch(m) ==
  IF ~m.ok THEN Null ELSE Num(MathCeil(TimesThousand(NumberOf(m.int, m.frac))))

DelayOfEntry(retryInfo) ==
  IF ~Truthy(retryInfo.retryDelay) THEN Null
  ELSE DelayOfMatch(DurationMatch(Trim(retryInfo.retryDelay.v)))

\* details.find(...): the first entry the callback accepts
DelayOfList(list, hits) ==
  IF hits = {} THEN Null ELSE DelayOfEntry(list[Min(hits)])

DelayOfDetails(details) ==
  IF details.t # "array" THEN Null
  ELSE DelayOfList(details.v, {i \in DOMAIN details.v : IsRetryInfoEntry(details.v[i])})

\* the try block never throws on the values modelled, so its catch is not taken
parseRetryDelayMs(err) == DelayOfDetails(DetailsOf(err))

\* ---------------------------------------------------------------- responses

\* the texts the handlers answer and prompt with
Txt ==
  [RateLimitPrefix |->  \* chatbot.js:52
     <<"R","a","t","e"," ","l","i","m","i","t"," ","e","x","c","e","e","d","e","d","."," ","P","l","e","a","s","e"," ","t","r","y"," ","a","g","a","i","n"," ","i","n"," ">>,
   ChatServiceError |->  \* chatbot.js:60
     <<"C","h","a","t"," ","s","e","r","v","i","c","e"," ","e","r","r","o","r">>,
   MessageRequired |->  \* chatbot.js:112
     <<"M","e","s","s","a","g","e"," ","r","e","q","u","i","r","e","d">>,
   Misconfigured |->  \* chatbot.js:115
     <<"S","e","r","v","e","r"," ","m","i","s","c","o","n","f","i","g","u","r","e","d",":"," ","G","E","M","I","N","I","_","A","P","I","_","K","E","Y"," ","m","i","s","s","i","n","g">>,
   UnableToRespond |->  \* chatbot.js:125
     <<"U","n","a","b","l","e"," ","t","o"," ","r","e","s","p","o","n","d",".">>,
   UnableToSummarize |->  \* chatbot.js:226
     <<"U","n","a","b","l","e"," ","t","o"," ","g","e","n","e","r","a","t","e"," ","s","u","m","m","a","r","y",".">>,
   ProvideRollAndSubject |->  \* chatbot.js:152-156
     <<"P","r","o","v","i","d","e"," ","r","o","l","l","N","o"," ","+"," ","s","u","b","j","e","c","t","N","a","m","e",","," ","o","r"," ","a"," ","m","e","s","s","a","g","e"," ","l","i","k","e",":"," ","\"","G","i","v","e"," ","m","e"," ","a"," ","r","e","v","i","e","w"," ","o","f"," ","m","y"," ","p","a","p","e","r"," ","r","o","l","l"," ","2","1","C","M","R","0","0","1"," ","s","u","b","j","e","c","t"," ","D","S","A","\"",".">>,
   RollAndSubjectRequired |->  \* chatbot.js:360
     <<"r","o","l","l","N","o"," ","a","n","d"," ","s","u","b","j","e","c","t","N","a","m","e"," ","a","r","e"," ","r","e","q","u","i","r","e","d">>,
   FailedToLoadFolders |->  \* chatbot.js:173
     <<"F","a","i","l","e","d"," ","t","o"," ","l","o","a","d"," ","e","x","a","m"," ","f","o","l","d","e","r","s">>,
   NoFolders |->  \* chatbot.js:179
     <<"N","o"," ","e","x","a","m"," ","f","o","l","d","e","r","s"," ","f","o","u","n","d"," ","f","o","r"," ","t","h","i","s"," ","r","o","l","l"," ","n","u","m","b","e","r">>,
   ExamNotFound |->  \* chatbot.js:192
     <<"E","x","a","m"," ","n","o","t"," ","f","o","u","n","d"," ","f","o","r"," ","g","i","v","e","n"," ","e","x","a","m","N","a","m","e">>,
   NotAFunction |->  \* chatbot.js:112, the TypeError of message?.trim
     <<"m","e","s","s","a","g","e","?",".","t","r","i","m"," ","i","s"," ","n","o","t"," ","a"," ","f","u","n","c","t","i","o","n">>,
   Anonymous |->  \* chatbot.js:121
     <<"a","n","o","n","y","m","o","u","s">>,
   NoScripts |->  \* chatbot.js:431
     <<"N","o"," ","s","c","r","i","p","t"," ","f","i","l","e","s"," ","u","p","l","o","a","d","e","d",".">>]
\* club.js:509 and club.js:506
TxtChatServiceUnavailable == <<"C","h","a","t"," ","s","e","r","v","i","c","e"," ","u","n","a","v","a","i","l","a","b","l","e">>
TxtNoResponseGenerated == <<"N","o"," ","r","e","s","p","o","n","s","e"," ","g","e","n","e","r","a","t","e","d">>

\* String(n) for a natural n
RECURSIVE DecimalString(_)
DecimalString(n) ==
  IF n < 10 THEN <<Digits[n + 1]>>
  ELSE DecimalString(n \div 10) \o <<Digits[(n % 10) + 1]>>

\* String(x) for a string or a natural number
JsString(x) == IF x.t = "number" THEN DecimalString(x.v) ELSE x.v

\* An HTTP response: res.status(status).json(body).  A body field that is not
\* sent is Undefined; type is "" and meta is <<>> when the body has none.
Response(status, message, error, response, type, retryAfterMs) ==
  [status |-> status, message |-> message, error |-> error,
   response |-> response, type |-> type, retryAfterMs |-> retryAfterMs, meta |-> <<>>]

MessageResponse(status, text) ==
  Response(status, Str(text), Undefined, Undefined, "", Undefined)

\* --------------------------------------------------------- ErrorClassifier

\* the test of the rate-limit branch
IsRateLimitError(err) ==
  LET status == Or(err.status, err.code)
  IN status = Num(429)
     \/ Includes(JsString(Or(err.message, Str(<<>>))), <<"4", "2", "9">>)

\* Math.ceil(retryAfterMs / 1000): exact on doubles for an integer retryAfterMs
CeilSeconds(retryAfterMs) == (retryAfterMs + 999) \div 1000

RateLimitResponse(err) ==
  LET retryAfterMs == Coalesce(parseRetryDelayMs(err), Num(5000))
      retryAfterSec == CeilSeconds(retryAfterMs.v)
  IN Response(429, Str(Txt.RateLimitPrefix \o DecimalString(retryAfterSec) \o <<"s", ".">>),
              Undefined, Undefined, "RATE_LIMIT", retryAfterMs)

\* the 500 body without the fallback text
ServerErrorResponseNoFallback(err) ==
  Response(500, err.message, Undefined, Undefined, "SERVER_ERROR", Undefined)

\* res.status(500).json({ message: err?.message || "Chat service error", type: "SERVER_ERROR" })
ServerErrorResponse(err) ==
  Response(500, Or(err.message, Str(Txt.ChatServiceError)),
           Undefined, Undefined, "SERVER_ERROR", Undefined)

handleGeminiError(err) ==
  IF IsRateLimitError(err) THEN RateLimitResponse(err) ELSE ServerErrorResponse(err)

\* the catch block of /chat in src/unnamed/part_000: the same two branches inline
chatCatch(err) ==
  IF Or(err.status, err.code) = Num(429)
     \/ Includes(JsString(Or(err.message, Str(<<>>))), <<"4", "2", "9">>)
  THEN LET retryAfterMs == Coalesce(parseRetryDelayMs(err), Num(5000))
           retryAfterSec == CeilSeconds(retryAfterMs.v)
       IN Response(429, Str(Txt.RateLimitPrefix \o DecimalString(retryAfterSec) \o <<"s", ".">>),
                   Undefined, Undefined, "RATE_LIMIT", retryAfterMs)
  ELSE Response(500, Or(err.message, Str(Txt.ChatServiceError)),
                Undefined, Undefined, "SERVER_ERROR", Undefined)

\* the catch block of the embedded /api/chat of src/club.js
embeddedChatCatch(err) ==
  Response(500, Undefined, Str(TxtChatServiceUnavailable), Undefined, "", Undefined)

\* ----------------------------------------------------------- QueryExtractor

\* \b at position p, between text[p] and text[p + 1]
WordBoundary(text, p) ==
  (p >= 1 /\ IsWordChar(text[p])) # (p < Len(text) /\ IsWordChar(text[p + 1]))

AllIn(text, lo, hi, Class(_)) == \A i \in lo..hi : Class(text[i])

\* the number of whitespace characters from position p on
RECURSIVE SpaceRun(_, _)
SpaceRun(text, p) ==
  IF p <= Len(text) /\ IsSpace(text[p]) THEN 1 + SpaceRun(text, p + 1) ELSE 0

\* /\b\d{2}[A-Za-z]{2,6}\d{3,4}\b/ anchored at i: the <<letters, digits>>
\* counts that match
RollCounts(text, i) ==
  {c \in (2..6) \X (3..4) :
     /\ i + 1 + c[1] + c[2] <= Len(text)
     /\ WordBoundary(text, i - 1)
     /\ AllIn(text, i, i + 1, IsDigit)
     /\ AllIn(text, i + 2, i + 1 + c[1], IsLetter)
     /\ AllIn(text, i + 2 + c[1], i + 1 + c[1] + c[2], IsDigit)
     /\ WordBoundary(text, i + 1 + c[1] + c[2])}

\* of the counts that match, the greedy engine takes the most letters, then
\* the most digits
RollTake(text, i, cs, letters) ==
  SubSeq(text, i, i + 1 + letters + Max({c[2] : c \in {d \in cs : d[1] = letters}}))

RollAt(text, i, cs) == RollTake(text, i, cs, Max({c[1] : c \in cs}))

RollFrom(text, starts) ==
  IF starts = {} THEN <<>> ELSE RollAt(text, Min(starts), RollCounts(text, Min(starts)))

\* text.match(/\b\d{2}[A-Za-z]{2,6}\d{3,4}\b/)?.[0]: the leftmost match, or <<>>
RollMatch(text) ==
  RollFrom(text, {i \in DOMAIN text : RollCounts(text, i) # {}})

\* the class [A-Za-z& ] of the capture group
IsSubjectChar(c) == IsLetter(c) \/ c = "&" \/ c = " "

\* the rest of the keyword pattern from position p, just after the keyword:
\* the choices <<spaces, separator, spaces, group length>> that match
TailChoices(text, p) ==
  {c \in (0..SpaceRun(text, p)) \X (0..1) \X (0..Len(text)) \X (2..25) :
     /\ (c[2] = 1 => p + c[1] <= Len(text) /\ text[p + c[1]] \in {":", "-"})
     /\ c[3] <= SpaceRun(text, p + c[1] + c[2])
     /\ p + c[1] + c[2] + c[3] + c[4] - 1 <= Len(text)
     /\ AllIn(text, p + c[1] + c[2] + c[3], p + c[1] + c[2] + c[3] + c[4] - 1, IsSubjectChar)
     /\ WordBoundary(text, p + c[1] + c[2] + c[3] + c[4] - 1)}

\* /\bKEYWORD\s*[:\-]?\s*([A-Za-z& ]{2,25})\b/i anchored at i
KeywordChoices(text, keyword, i) ==
  IF /\ i + Len(keyword) - 1 <= Len(text)
     /\ WordBoundary(text, i - 1)
     /\ ToLowerCase(SubSeq(text, i, i + Len(keyword) - 1)) = keyword
  THEN TailChoices(text, i + Len(keyword))
  ELSE {}

\* the order in which the backtracking engine tries the choices: each
\* quantifier greedy, the leftmost first
TriedBefore(a, b) ==
  \E j \in 1..4 : a[j] > b[j] /\ \A h \in 1..(j - 1) : a[h] = b[h]

GroupOf(text, p, c) ==
  SubSeq(text, p + c[1] + c[2] + c[3], p + c[1] + c[2] + c[3] + c[4] - 1)

CaptureAt(text, p, cs) ==
  GroupOf(text, p, CHOOSE a \in cs : \A b \in cs : a = b \/ TriedBefore(a, b))

CaptureFrom(text, keyword, starts) ==
  IF starts = {} THEN <<>>
  ELSE CaptureAt(text, Min(starts) + Len(keyword), KeywordChoices(text, keyword, Min(starts)))

\* text.match(...)?.[1] for the keyword pattern: the capture group, or <<>>
KeywordCapture(text, keyword) ==
  CaptureFrom(text, keyword, {i \in DOMAIN text : KeywordChoices(text, keyword, i) # {}})

\* the subject short codes, in the order of the alternation
SubjectTokens == <<<<"d","s","a">>, <<"d","b","m","s">>, <<"o","s">>, <<"c","n">>, <<"c","o","a">>, <<"o","o","p","s">>, <<"a","i">>, <<"m","l">>, <<"s","e">>>>

TokenAt(text, i, token) ==
  /\ i + Len(token) - 1 <= Len(text)
  /\ WordBoundary(text, i - 1)
  /\ ToLowerCase(SubSeq(text, i, i + Len(token) - 1)) = token
  /\ WordBoundary(text, i + Len(token) - 1)

TokenTake(text, i, hits) ==
  SubSeq(text, i, i + Len(SubjectTokens[Min({h[2] : h \in {x \in hits : x[1] = i}})]) - 1)

TokenFrom(text, hits) ==
  IF hits = {} THEN <<>> ELSE TokenTake(text, Min({h[1] : h \in hits}), hits)

\* text.match(/\b(DSA|DBMS|OS|CN|COA|OOPS|AI|ML|SE)\b/i)?.[1], or <<>>
TokenMatch(text) ==
  TokenFrom(text, {h \in (DOMAIN text) \X (DOMAIN SubjectTokens) :
                     TokenAt(text, h[1], SubjectTokens[h[2]])})

\* the match taken as it is written in the message
RollOfAsWritten(rollMatch) == IF rollMatch # <<>> THEN Str(rollMatch) ELSE Null

\* rollMatch ? rollMatch[0].toUpperCase() : null
RollOf(rollMatch) == IF rollMatch # <<>> THEN Str(ToUpperCase(rollMatch)) ELSE Null

\* subjectName after the keyword patterns: the trimmed group of the subject
\* pattern, else of the exam pattern, else null
NamedSubject(subjectCapture, examCapture) ==
  IF subjectCapture # <<>> THEN Str(Trim(subjectCapture))
  ELSE IF examCapture # <<>> THEN Str(Trim(examCapture))
  ELSE Null

\* the fallback to a short code when the keyword patterns gave no name
SubjectOf(named, token) ==
  IF Truthy(named) THEN named
  ELSE IF token # <<>> THEN Str(ToUpperCase(token))
  ELSE named

ExtractFrom(text) ==
  [rollNo |-> RollOf(RollMatch(text)),
   subjectName |-> SubjectOf(NamedSubject(KeywordCapture(text, <<"s","u","b","j","e","c","t">>),
                                          KeywordCapture(text, <<"e","x","a","m">>)),
                             TokenMatch(text))]

extractRollAndSubject(message) == ExtractFrom(Trim(JsString(Or(message, Str(<<>>)))))

\* ------------------------------------------------------------ RecordFetcher

Subject(subjectName, marksObtained, maxMarks, scripts) ==
  [subjectName |-> subjectName, marksObtained |-> marksObtained,
   maxMarks |-> maxMarks, scripts |-> scripts]
Folder(examName, subjects) == [examName |-> examName, subjects |-> subjects]

\* `${x}` in a template literal, and String(x)
TemplateString(x) ==
  CASE x.t = "undefined" -> <<"u","n","d","e","f","i","n","e","d">>
    [] x.t = "null" -> <<"n","u","l","l">>
    [] OTHER -> JsString(x)

\* String(name || "").trim().toLowerCase()
NormalName(name) == ToLowerCase(Trim(JsString(Or(name, Str(<<>>)))))

\* subjects.find(...) || null, as <<>> or <<subject>>
findSubjectInFolder(folder, subjectName) ==
  LET target == NormalName(subjectName)
      subjects == IF folder.subjects.t = "array" THEN folder.subjects.v ELSE <<>>
      hits == {i \in DOMAIN subjects : NormalName(subjects[i].subjectName) = target}
  IN IF target = <<>> \/ hits = {} THEN <<>> ELSE <<subjects[Min(hits)]>>

\* the choice that takes the last folder of the given name
ChooseFolderLast(folders, examName) ==
  IF Truthy(examName)
  THEN LET hits == {i \in DOMAIN folders :
                      NormalName(folders[i].examName) = ToLowerCase(Trim(TemplateString(examName)))}
       IN IF hits = {} THEN <<>> ELSE <<folders[Max(hits)]>>
  ELSE <<folders[1]>>

\* folders.find(f => name of f equals examName), or folders[0]; <<>> when none
ChooseFolder(folders, examName) ==
  IF Truthy(examName)
  THEN LET hits == {i \in DOMAIN folders :
                      NormalName(folders[i].examName) = ToLowerCase(Trim(TemplateString(examName)))}
       IN IF hits = {} THEN <<>> ELSE <<folders[Min(hits)]>>
  ELSE <<folders[1]>>

\* ------------------------------------------------------------------- state

\* the database with no document stored
EmptyDb == [clubs |-> <<>>, attendance |-> <<>>, folders |-> <<>>]

VARIABLES
  variant,        \* which handler serves the request
  apiKey,         \* whether process.env.GEMINI_API_KEY is set
  body,           \* req.body
  pc,             \* where the handler is: received, fetching, generating, done
  rollNo,         \* the handler's rollNo after resolution
  subjectName,    \* the handler's subjectName after resolution
  folder,         \* the chosen folder, <<>> before it is chosen
  subject,        \* the subject found in it, <<>> before it is found
  prompt,         \* the prompt handed to model.generateContent, <<>> before the call
  responses,      \* the HTTP responses sent, in order
  providerCalls,  \* the number of model.generateContent calls started
  fetchCalls,     \* the number of calls to the exam-records endpoint started
  fetched,        \* the answer of the exam-records endpoint, <<>> before it came
  generated,      \* the text the provider call resolved with, <<>> before it did
  secondaryKey,   \* whether a secondary provider's key is configured
  secondaryCalls, \* the number of calls to the secondary provider started
  db,             \* the stored documents: clubs, attendance records, exam folders
  jobs,           \* the requests on the database that are between two awaits
  thrown,         \* the errors the catch block received, in order
  logs,           \* what console.error was given, in order
  parseInput,     \* the error handed to the parser alone, <<>> when none
  parseOutput     \* what the parser returned for it, <<>> before it ran

vars == <<variant, apiKey, body, pc, rollNo, subjectName, folder, subject, prompt,
          responses, providerCalls, fetchCalls, fetched, generated, secondaryKey,
          secondaryCalls, db, jobs, thrown, logs, parseInput, parseOutput>>

\* the handlers: router.post("/chat") and router.post("/exam-summary") of
\* src/chatbot.js (the file holds two revisions of the router), router.post('/chat')
\* of src/unnamed/part_000 and app.post('/api/chat') of src/club.js
ChatMain == "chatbot.js:109 /chat"
ChatSecond == "chatbot.js:325 /chat"
ChatPart == "part_000:36 /chat"
ChatEmbedded == "club.js:487 /api/chat"
ExamMain == "chatbot.js:140 /exam-summary"
ExamSecond == "chatbot.js:355 /exam-summary"

ChatVariants == {ChatMain, ChatSecond, ChatPart, ChatEmbedded}
ExamVariants == {ExamMain, ExamSecond}
Variants == ChatVariants \cup ExamVariants

\* ------------------------------------------------------------------ inputs

\* the texts of the requests, records and errors the handlers are run on
Sample ==
  [Hi |-> <<"h","i">>,
   Blank |-> <<" "," "," ">>,
   Student |-> <<"s","1","@","c","m","r","i","t",".","a","c",".","i","n">>,
   ReviewMessage |-> <<"r","e","v","i","e","w"," ","m","y"," ","p","a","p","e","r"," ","r","o","l","l"," ","2","1","C","M","R","0","0","1"," ","s","u","b","j","e","c","t"," ","D","S","A">>,
   RollOnlyMessage |-> <<"r","o","l","l"," ","2","1","c","s","0","0","2"," ","p","l","e","a","s","e">>,
   SubjectOnlyMessage |-> <<"m","a","r","k","s"," ","i","n"," ","s","u","b","j","e","c","t",":"," ","m","a","t","h","s">>,
   BlankSubjectMessage |-> <<"2","1","c","m","r","0","0","1"," ","s","u","b","j","e","c","t"," "," "," ","9">>,
   Roll1 |-> <<"2","1","C","M","R","0","0","1">>,
   Roll2 |-> <<" ","2","1","c","s","0","0","2">>,
   DSA |-> <<"D","S","A">>,
   DsaLower |-> <<" ","d","s","a"," ">>,
   Maths |-> <<"M","a","t","h","s">>,
   Physics |-> <<"P","h","y","s","i","c","s">>,
   Mid1 |-> <<"M","i","d","-","1">>,
   Mid2 |-> <<"M","i","d","-","2">>,
   Mid2Loose |-> <<" ","m","i","d","-","2">>,
   Final |-> <<"F","i","n","a","l">>,
   ScriptUrl |-> <<"/","e","x","a","m","_","u","p","l","o","a","d","s","/","a",".","p","d","f">>,
   ServerError |-> <<"S","e","r","v","e","r"," ","e","r","r","o","r">>,
   RollRequired |-> <<"r","o","l","l","N","o"," ","i","s"," ","r","e","q","u","i","r","e","d">>,
   QuotaMessage |-> <<"[","4","2","9"," ","T","o","o"," ","M","a","n","y"," ","R","e","q","u","e","s","t","s","]"," ","q","u","o","t","a"," ","e","x","c","e","e","d","e","d">>,
   RateLimitMessage |-> <<"r","a","t","e"," ","l","i","m","i","t"," ","e","x","c","e","e","d","e","d">>,
   FetchFailed |-> <<"f","e","t","c","h"," ","f","a","i","l","e","d">>,
   ResourceExhausted |-> <<"R","E","S","O","U","R","C","E","_","E","X","H","A","U","S","T","E","D">>,
   D32s |-> <<"3","2","s">>,
   D2007s |-> <<"2",".","0","0","7","s">>,
   Soon |-> <<"s","o","o","n">>,
   Answer |-> <<"S","u","m","m","a","r","y",":"," ","g","o","o","d","."," ","I","m","p","r","o","v","e","m","e","n","t","s",":"," ","p","r","a","c","t","i","c","e",".">>,
   D4s |-> <<"4","s">>,
   D1p5s |-> <<"1",".","5","s">>,
   D7SPadded |-> <<" ","7","S"," ">>,
   D5 |-> <<"5">>,
   D1DotS |-> <<"1",".","s">>,
   Dot5s |-> <<".","5","s">>,
   BareS |-> <<"s">>,
   D0s |-> <<"0","s">>,
   Tiny |-> <<"0",".","0","0","0","4","s">>,
   D4SpaceS |-> <<"4"," ","s">>]

Body(message, studentEmail, roll, subj, examName) ==
  [message |-> message, studentEmail |-> studentEmail, rollNo |-> roll,
   subjectName |-> subj, examName |-> examName]

ChatBodies ==
  {Body(m, e, Undefined, Undefined, Undefined) :
     m \in {Undefined, Null, Str(<<>>), Str(Sample.Blank), Str(Sample.Hi), Num(7)},
     e \in {Undefined, Str(Sample.Student)}}

ExamBodies ==
  {Body(m, Undefined, r, s, x) :
     m \in {Undefined, Str(<<>>), Str(Sample.ReviewMessage), Str(Sample.RollOnlyMessage),
            Str(Sample.SubjectOnlyMessage), Str(Sample.BlankSubjectMessage), Num(7)},
     r \in {Undefined, Str(<<>>), Str(Sample.Roll2)},
     s \in {Undefined, Str(<<>>), Str(Sample.DsaLower), Str(Sample.Physics)},
     x \in {Undefined, Str(Sample.Mid2Loose), Str(Sample.Final)}}

Bodies(v) == IF v \in ChatVariants THEN ChatBodies ELSE ExamBodies

\* what the exam-records endpoint can answer
Script(url) == [url |-> url]
FolderMid1 ==
  Folder(Str(Sample.Mid1),
         Arr(<<Subject(Str(Sample.Maths), Num(20), Num(25), Arr(<<>>)),
               Subject(Str(Sample.DSA), Num(18), Num(25), Arr(<<Script(Str(Sample.ScriptUrl)), Script(Undefined)>>)),
               Subject(Str(Sample.DsaLower), Num(3), Num(25), Arr(<<>>))>>))
FolderMid2 ==
  Folder(Str(Sample.Mid2),
         Arr(<<Subject(Str(Sample.DSA), Num(11), Num(50), Undefined),
               Subject(Str(Sample.Physics), Num(31), Num(50),
                       Arr([i \in 1..6 |-> Script(Str(Sample.ScriptUrl \o <<Digits[i]>>))]))>>))
FolderMid2Again ==
  Folder(Str(Sample.Mid2Loose), Arr(<<Subject(Str(Sample.Maths), Num(40), Num(50), Arr(<<>>))>>))


FetchData(message, folders) == [message |-> message, folders |-> folders]
FetchAnswer(ok, status, data) == [ok |-> ok, status |-> status, data |-> data]

\* foldersRes with the foldersData read from it ({} when the body is no JSON)
FetchAnswers ==
  {FetchAnswer(FALSE, st, FetchData(m, Undefined)) :
     st \in {400, 404, 500}, m \in {Undefined, Str(Sample.ServerError), Str(Sample.RollRequired)}}
  \cup
  {FetchAnswer(TRUE, 200, FetchData(Undefined, fs)) :
     fs \in {Undefined, Str(Sample.Hi), Arr(<<>>), Arr(<<FolderMid1>>),
             Arr(<<FolderMid1, FolderMid2, FolderMid2Again>>),
             Arr(<<FolderMid2Again, FolderMid2>>)}}

ProviderErrors ==
  {ErrorValue(st, cd, m, d, Undefined, Undefined, Undefined) :
     st \in {Undefined, Num(429), Num(503), Str(Sample.ResourceExhausted)},
     cd \in {Undefined, Num(429)},
     m \in {Undefined, Str(<<>>), Str(Sample.QuotaMessage), Str(Sample.RateLimitMessage), Str(Sample.FetchFailed)},
     d \in {Undefined,
            Arr(<<Entry(RetryInfoType, Str(Sample.D32s))>>),
            Arr(<<Entry(QuotaFailureType, Undefined), Entry(RetryInfoType, Str(Sample.D2007s))>>),
            Arr(<<Entry(RetryInfoType, Str(Sample.Soon))>>)}}

\* what the global fetch can throw
FetchErrors ==
  {ErrorValue(Undefined, cd, Str(Sample.FetchFailed), Undefined, Undefined, Undefined, Undefined) :
     cd \in {Undefined, Str(<<"E","C","O","N","N","R","E","F","U","S","E","D">>)}}

\* result?.response?.candidates?.[0]?.content?.parts?.[0]?.text
GeneratedTexts == {Str(Sample.Answer), Str(<<>>), Undefined}

\* ------------------------------------------------------------ PromptBuilder


Prompt(parts, scriptLinks) == [parts |-> parts, scriptLinks |-> scriptLinks]

\* the values the /chat template interpolates, in order
ChatPrompt(b) ==
  Prompt(<<TemplateString(Or(b.studentEmail, Str(Txt.Anonymous))), TemplateString(b.message)>>, <<>>)

\* array.filter(Boolean) over the urls of the scripts
RECURSIVE TruthyUrls(_)
TruthyUrls(scripts) ==
  IF scripts = <<>> THEN <<>>
  ELSE (IF Truthy(Head(scripts).url) THEN <<Head(scripts).url.v>> ELSE <<>>)
       \o TruthyUrls(Tail(scripts))

\* scripts.map((s) => s?.url).filter(Boolean).slice(0, 5)
ScriptLinks(s) ==
  LET scripts == IF s.scripts.t = "array" THEN s.scripts.v ELSE <<>>
      urls == TruthyUrls(scripts)
  IN SubSeq(urls, 1, IF Len(urls) < 5 THEN Len(urls) ELSE 5)

\* scriptLinks.join(", ")
RECURSIVE Join(_)
Join(texts) ==
  IF texts = <<>> THEN <<>>
  ELSE IF Len(texts) = 1 THEN texts[1]
  ELSE texts[1] \o <<",", " ">> \o Join(Tail(texts))

\* the values the /exam-summary template interpolates, in order
ExamPrompt(v, roll, f, s, subj) ==
  LET common == <<Trim(TemplateString(roll)), TemplateString(f.examName)>>
      marks == <<TemplateString(s.marksObtained), TemplateString(s.maxMarks)>>
      links == ScriptLinks(s)
  IN IF v = ExamMain
     THEN Prompt(common \o <<Trim(TemplateString(Or(s.subjectName, subj)))>> \o marks, <<>>)
     ELSE Prompt(common \o <<TemplateString(s.subjectName)>> \o marks
                 \o <<IF links # <<>> THEN Join(links) ELSE Txt.NoScripts>>, links)

\* ---------------------------------------------------------------- handlers

\* the catch block of the handler, and what it hands to console.error
CatchResponse(v, err) ==
  IF v = ChatPart THEN chatCatch(err)
  ELSE IF v = ChatEmbedded THEN embeddedChatCatch(err)
  ELSE handleGeminiError(err)

LogOf(v, err) ==
  IF v = ChatEmbedded THEN [tag |-> "Chatbot error:", detail |-> <<err.message>>]
  ELSE IF Or(err.status, err.code) = Num(429)
          \/ Includes(JsString(Or(err.message, Str(<<>>))), <<"4", "2", "9">>)
  THEN [tag |-> "Gemini 429/quota:", detail |-> <<err>>]
  ELSE [tag |-> "Gemini error:", detail |-> <<err>>]

\* a response that is not returned on, so that the handler responds again
ReplyAndFallThrough(r) ==
  /\ responses' = responses \o <<r, r>>
  /\ pc' = "done"
  /\ UNCHANGED <<prompt, providerCalls, fetchCalls, thrown, logs>>

\* return res.status(...).json(...)
Reply(r) ==
  /\ responses' = Append(responses, r)
  /\ pc' = "done"
  /\ UNCHANGED <<prompt, providerCalls, fetchCalls, thrown, logs>>

\* a throw inside try: the catch block logs and responds
Catch(err) ==
  /\ thrown' = Append(thrown, err)
  /\ logs' = Append(logs, LogOf(variant, err))
  /\ responses' = Append(responses, CatchResponse(variant, err))
  /\ pc' = "done"
  /\ UNCHANGED <<prompt, providerCalls, fetchCalls>>

\* await model.generateContent(prompt)
Generate(p) ==
  /\ prompt' = <<p>>
  /\ providerCalls' = providerCalls + 1
  /\ pc' = "generating"
  /\ UNCHANGED <<responses, fetchCalls, thrown, logs>>

\* a records fetch started together with the provider call
FetchRacingProvider ==
  /\ fetchCalls' = fetchCalls + 1
  /\ providerCalls' = providerCalls + 1
  /\ pc' = "fetching"
  /\ UNCHANGED <<responses, prompt, thrown, logs>>

\* await fetchFn(foldersUrl)
Fetch ==
  /\ fetchCalls' = fetchCalls + 1
  /\ pc' = "fetching"
  /\ UNCHANGED <<responses, prompt, providerCalls, thrown, logs>>

\* the TypeError of calling message?.trim on a value that has no trim
TrimTypeError ==
  ErrorValue(Undefined, Undefined, Str(Txt.NotAFunction), Undefined, Undefined, Undefined, Undefined)

\* the emptiness test without the trim
MessageMissingNoTrim(message) ==
  message.t \in {"undefined", "null"} \/ message.v = <<>>

\* !message?.trim()
MessageMissing(message) ==
  message.t \in {"undefined", "null"} \/ Trim(message.v) = <<>>

\* POST /chat, up to the await of the provider call
ChatReceive ==
  /\ pc = "received"
  /\ variant \in ChatVariants
  /\ IF body.message.t \notin {"undefined", "null", "string"}
     THEN Catch(TrimTypeError)
     ELSE IF MessageMissing(body.message)
     THEN Reply(IF variant = ChatEmbedded
                THEN Response(400, Undefined, Str(Txt.MessageRequired), Undefined, "", Undefined)
                ELSE MessageResponse(400, Txt.MessageRequired))
     ELSE IF variant # ChatEmbedded /\ ~apiKey
     THEN Reply(MessageResponse(500, Txt.Misconfigured))
     ELSE Generate(ChatPrompt(body))
  /\ UNCHANGED <<variant, apiKey, db, jobs, secondaryKey, secondaryCalls, body, rollNo, subjectName, folder, subject,
                 fetched, generated, parseInput, parseOutput>>

\* /exam-summary once rollNo and subjectName are resolved
ExamResolved(roll, subj) ==
  /\ rollNo' = roll
  /\ subjectName' = subj
  /\ IF ~Truthy(roll) \/ ~Truthy(subj)
     THEN Reply(MessageResponse(400, IF variant = ExamMain
                                     THEN Txt.ProvideRollAndSubject
                                     ELSE Txt.RollAndSubjectRequired))
     ELSE IF ~apiKey
     THEN Reply(MessageResponse(500, Txt.Misconfigured))
     ELSE Fetch

\* the extracted values taking precedence over the explicit fields
ExamExtractedFirst(extracted) ==
  ExamResolved(Or(extracted.rollNo, body.rollNo), Or(extracted.subjectName, body.subjectName))

\* rollNo = rollNo || extracted.rollNo; subjectName = subjectName || extracted.subjectName
ExamExtracted(extracted) ==
  ExamResolved(Or(body.rollNo, extracted.rollNo), Or(body.subjectName, extracted.subjectName))

\* POST /exam-summary, up to the await of the records fetch
ExamReceive ==
  /\ pc = "received"
  /\ variant \in ExamVariants
  /\ IF /\ variant = ExamMain
        /\ ~Truthy(body.rollNo) \/ ~Truthy(body.subjectName)
        /\ Truthy(body.message)
     THEN ExamExtracted(extractRollAndSubject(body.message))
     ELSE ExamResolved(body.rollNo, body.subjectName)
  /\ UNCHANGED <<variant, apiKey, db, jobs, secondaryKey, secondaryCalls, body, folder, subject, fetched, generated, parseInput, parseOutput>>

\* `Subject "${subjectName}" not found in exam "${folder.examName}"`
SubjectNotFoundText(subj, f) ==
  <<"S","u","b","j","e","c","t"," ","\"">> \o TemplateString(subj)
  \o <<"\""," ","n","o","t"," ","f","o","u","n","d"," ","i","n"," ","e","x","a","m"," ","\"">>
  \o TemplateString(f.examName) \o <<"\"">>

\* /exam-summary once a folder is chosen: find the subject, then call the provider
FolderChosen(f, found) ==
  /\ folder' = <<f>>
  /\ IF found = <<>>
     THEN /\ Reply(MessageResponse(404, SubjectNotFoundText(subjectName, f)))
          /\ UNCHANGED subject
     ELSE /\ Generate(ExamPrompt(variant, rollNo, f, found[1], subjectName))
          /\ subject' = found

\* the choice of the folder without the test for an empty list
FoldersReadNoEmptyTest(folders, chosen) ==
  IF chosen = <<>>
  THEN /\ Reply(MessageResponse(404, Txt.ExamNotFound))
       /\ UNCHANGED <<folder, subject>>
  ELSE FolderChosen(chosen[1], findSubjectInFolder(chosen[1], subjectName))

\* /exam-summary once the folder list is read: choose the folder
FoldersRead(folders, chosen) ==
  IF Len(folders) = 0
  THEN /\ Reply(MessageResponse(404, Txt.NoFolders))
       /\ UNCHANGED <<folder, subject>>
  ELSE IF chosen = <<>>
  THEN /\ Reply(MessageResponse(404, Txt.ExamNotFound))
       /\ UNCHANGED <<folder, subject>>
  ELSE FolderChosen(chosen[1], findSubjectInFolder(chosen[1], subjectName))

\* Array.isArray(foldersData?.folders) ? foldersData.folders : []
FoldersOf(data) == IF data.folders.t = "array" THEN data.folders.v ELSE <<>>

\* the answer's failure reported as a server error of this handler
FetchFailedResponseAs500(answer) ==
  MessageResponse(500, Or(answer.data.message, Str(Txt.FailedToLoadFolders)).v)

\* res.status(foldersRes.status).json({ message: foldersData?.message || "Failed to load exam folders" })
FetchFailedResponse(answer) ==
  MessageResponse(answer.status, Or(answer.data.message, Str(Txt.FailedToLoadFolders)).v)

\* /exam-summary from the answer of the records endpoint to the provider call
FetchResolve(answer) ==
  /\ pc = "fetching"
  /\ fetched' = <<answer>>
  /\ IF ~answer.ok
     THEN /\ Reply(FetchFailedResponse(answer))
          /\ UNCHANGED <<folder, subject>>
     ELSE FoldersRead(FoldersOf(answer.data),
                      IF FoldersOf(answer.data) = <<>> THEN <<>>
                      ELSE ChooseFolder(FoldersOf(answer.data), body.examName))
  /\ UNCHANGED <<variant, apiKey, db, jobs, secondaryKey, secondaryCalls, body, rollNo, subjectName,
                 generated, parseInput, parseOutput>>

\* the records fetch rejects: control passes to the catch block
FetchReject(err) ==
  /\ pc = "fetching"
  /\ Catch(err)
  /\ UNCHANGED <<variant, apiKey, db, jobs, secondaryKey, secondaryCalls, body, rollNo, subjectName, folder, subject,
                 fetched, generated, parseInput, parseOutput>>

\* meta of the /exam-summary success body
ExamMeta(v, roll, f, s, subj) ==
  [rollNo |-> Trim(TemplateString(roll)),
   examName |-> f.examName,
   subjectName |-> IF v = ExamMain THEN Or(s.subjectName, subj) ELSE s.subjectName,
   marksObtained |-> s.marksObtained,
   maxMarks |-> s.maxMarks,
   scriptCount |-> IF v = ExamMain THEN Undefined
                   ELSE Num(IF s.scripts.t = "array" THEN Len(s.scripts.v) ELSE 0)]

\* the provider call resolves: the handler answers 200 with the text or a fallback
GenerateResolve(text) ==
  /\ pc = "generating"
  \* without a key the provider refuses the call: it cannot resolve
  /\ apiKey
  /\ LET fallback == IF variant \in ExamVariants THEN Txt.UnableToSummarize
                     ELSE IF variant = ChatEmbedded THEN TxtNoResponseGenerated
                     ELSE Txt.UnableToRespond
         ok == Response(200, Undefined, Undefined, Or(text, Str(fallback)), "", Undefined)
     IN Reply(IF variant \in ExamVariants
              THEN [ok EXCEPT !.meta = <<ExamMeta(variant, rollNo, folder[1], subject[1], subjectName)>>]
              ELSE ok)
  /\ generated' = <<text>>
  /\ UNCHANGED <<variant, apiKey, db, jobs, secondaryKey, secondaryCalls, body, rollNo, subjectName,
                 folder, subject, fetched, parseInput, parseOutput>>

\* the provider call rejects: control passes to the catch block
GenerateReject(err) ==
  /\ pc = "generating"
  /\ Catch(err)
  /\ UNCHANGED <<variant, apiKey, db, jobs, secondaryKey, secondaryCalls, body, rollNo, subjectName, folder, subject,
                 fetched, generated, parseInput, parseOutput>>

Init ==
  /\ variant \in Variants
  /\ apiKey \in BOOLEAN
  /\ body \in Bodies(variant)
  /\ pc = "received"
  /\ rollNo = Undefined
  /\ subjectName = Undefined
  /\ folder = <<>>
  /\ subject = <<>>
  /\ prompt = <<>>
  /\ responses = <<>>
  /\ providerCalls = 0
  /\ fetchCalls = 0
  /\ fetched = <<>>
  /\ generated = <<>>
  /\ secondaryKey = FALSE
  /\ secondaryCalls = 0
  /\ db = EmptyDb
  /\ jobs = <<>>
  /\ thrown = <<>>
  /\ logs = <<>>
  /\ parseInput = <<>>
  /\ parseOutput = <<>>

Next ==
  \/ ChatReceive
  \/ ExamReceive
  \/ \E answer \in FetchAnswers : FetchResolve(answer)
  \/ \E err \in FetchErrors : FetchReject(err)
  \/ \E text \in GeneratedTexts : GenerateResolve(text)
  \/ \E err \in ProviderErrors : GenerateReject(err)

Spec == Init /\ [][Next]_vars

\* ------------------------------------------- the parser on its own inputs


DelayTexts ==
  {Sample.D4s, Sample.D32s, Sample.D1p5s, Sample.D2007s, Sample.D7SPadded, Sample.D5, Sample.Soon, Sample.D1DotS, Sample.Dot5s,
   Sample.BareS, Sample.D0s, Sample.Tiny, Sample.D4SpaceS, <<>>}

ParserEntries ==
  {NullEntry, Entry("", Str(Sample.D4s)), Entry(QuotaFailureType, Undefined),
   Entry(QuotaFailureType, Str(Sample.D4s))}
  \cup {Entry(RetryInfoType, d) : d \in {Undefined, Num(4)} \cup {Str(x) : x \in DelayTexts}}

\* the detail lists of at most n entries
RECURSIVE DetailLists(_)
DetailLists(n) ==
  IF n = 0 THEN {<<>>}
  ELSE DetailLists(n - 1) \cup {Append(l, e) : l \in DetailLists(n - 1), e \in ParserEntries}

\* what one of the four locations can hold
Locations ==
  {Undefined, Str(Sample.Hi), Arr(<<>>), Arr(<<Entry(RetryInfoType, Str(Sample.D4s))>>),
   Arr(<<Entry(RetryInfoType, Str(Sample.D32s))>>)}

ParserInputs ==
  {NonObjectError("null"), NonObjectError("undefined"), NonObjectError("string")}
  \cup {ErrorValue(Undefined, Undefined, Undefined, Arr(l), Undefined, Undefined, Undefined) :
          l \in DetailLists(MaxDetails)}
  \cup {ErrorValue(Num(429), Undefined, Undefined, a, b, c, d) :
          a \in Locations, b \in Locations, c \in Locations, d \in Locations}

InitParser ==
  /\ variant = "none"
  /\ apiKey = TRUE
  /\ body = Body(Undefined, Undefined, Undefined, Undefined, Undefined)
  /\ pc = "idle"
  /\ rollNo = Undefined
  /\ subjectName = Undefined
  /\ folder = <<>>
  /\ subject = <<>>
  /\ prompt = <<>>
  /\ responses = <<>>
  /\ providerCalls = 0
  /\ fetchCalls = 0
  /\ fetched = <<>>
  /\ generated = <<>>
  /\ secondaryKey = FALSE
  /\ secondaryCalls = 0
  /\ db = EmptyDb
  /\ jobs = <<>>
  /\ thrown = <<>>
  /\ logs = <<>>
  /\ parseInput \in {<<e>> : e \in ParserInputs}
  /\ parseOutput = <<>>

\* parseRetryDelayMs(err)
Parse ==
  /\ pc = "idle"
  /\ parseOutput = <<>>
  /\ parseOutput' = <<parseRetryDelayMs(parseInput[1])>>
  /\ UNCHANGED <<variant, apiKey, db, jobs, secondaryKey, secondaryCalls, body, pc, rollNo, subjectName, folder, subject, prompt,
                 responses, providerCalls, fetchCalls, fetched, generated, thrown, logs, parseInput>>

NextParser == Parse

SpecParser == InitParser /\ [][NextParser]_vars

\* ---------------------------------------- the extractor on its own inputs

\* the messages the extractor is run on: a lead, a roll part and a tail, and
\* the values that are no text
ExtractorInputs ==
  {Str(lead \o roll \o tail) :
     lead \in {<<>>, <<"r","o","l","l"," ">>, <<"r">>, <<"s","u","b","j","e","c","t"," ","a","i"," ">>},
     roll \in {<<>>, <<"2","1","C","M","R","0","0","1">>, <<"2","1","c","s","0","0","2","2">>, <<"1","c","s","0","0","1">>, <<"2","1","c","0","0","1">>, <<"2","1","c","m","r","0","0","1","2","3">>,
               <<"2","1","a","b","1","2","3"," ","2","2","E","E","3","3","3">>},
     tail \in {<<>>, <<" ","s","u","b","j","e","c","t"," ","D","S","A">>, <<" ","s","u","b","j","e","c","t",":"," ","m","a","t","h","s"," "," ">>, <<" ","S","u","b","j","e","c","t","-","D","a","t","a"," ","S","t","r","u","c","t","u","r","e","s"," ","&"," ","A","l","g","o">>,
               <<" ","e","x","a","m"," ","o","s">>, <<" ","d","b","m","s">>, <<" ","s","u","b","j","e","c","t"," "," "," ","9">>, <<" ","s","u","b","j","e","c","t"," ","D","S","A"," ","p","l","e","a","s","e",","," ","n","o","w">>,
               <<"s","u","b","j","e","c","t"," ","D","S","A">>, <<" ","s","u","b","j","e","c","t"," ","a","d","v","a","n","c","e","d"," ","d","a","t","a"," ","s","t","r","u","c","t","u","r","e","s"," ","a","n","d"," ","a","l","g","o","r","i","t","h","m","s">>}}
  \cup {Str(Sample.ReviewMessage), Undefined, Null, Num(7)}

InitExtractor ==
  /\ variant = "none"
  /\ apiKey = TRUE
  /\ body \in {Body(m, Undefined, Undefined, Undefined, Undefined) : m \in ExtractorInputs}
  /\ pc = "idle"
  /\ rollNo = Undefined
  /\ subjectName = Undefined
  /\ folder = <<>>
  /\ subject = <<>>
  /\ prompt = <<>>
  /\ responses = <<>>
  /\ providerCalls = 0
  /\ fetchCalls = 0
  /\ fetched = <<>>
  /\ generated = <<>>
  /\ secondaryKey = FALSE
  /\ secondaryCalls = 0
  /\ db = EmptyDb
  /\ jobs = <<>>
  /\ thrown = <<>>
  /\ logs = <<>>
  /\ parseInput = <<>>
  /\ parseOutput = <<>>

\* the result of extractRollAndSubject(message), put in rollNo and subjectName
Extracted(result) ==
  /\ rollNo' = result.rollNo
  /\ subjectName' = result.subjectName

\* const { rollNo, subjectName } = extractRollAndSubject(message)
Extract ==
  /\ pc = "idle"
  /\ Extracted(extractRollAndSubject(body.message))
  /\ pc' = "extracted"
  /\ UNCHANGED <<variant, apiKey, db, jobs, secondaryKey, secondaryCalls, body, folder, subject, prompt, responses, providerCalls,
                 fetchCalls, fetched, generated, thrown, logs, parseInput, parseOutput>>

NextExtractor == Extract

SpecExtractor == InitExtractor /\ [][NextExtractor]_vars

\* ------------------------------------------------------- GenerationGateway
\* The revision of the chat logic that has a secondary provider: one call of
\* the gateway, from the prompt to the one result or the one propagated error.

\* a result that carries the text and no source
GatewayResultUntagged(text, source) ==
  [text |-> text, source |-> "", error |-> "", retryAfterMs |-> Undefined]

\* { text, source }, the GenerationResult
GatewayResult(text, source) ==
  [text |-> text, source |-> source, error |-> "", retryAfterMs |-> Undefined]

\* a propagated error: its class and, for a rate limit, the computed delay
GatewayFailure(class, retryAfterMs) ==
  [text |-> Undefined, source |-> "", error |-> class, retryAfterMs |-> retryAfterMs]

\* a primary failure of the rate-limited class: a 429 status or code, or a
\* message containing "429" or "rate limit"
GatewayRateLimited(err) ==
  LET text == IF err.message.t = "string" THEN ToLowerCase(err.message.v) ELSE <<>>
  IN \/ err.status = Num(429)
     \/ err.code = Num(429)
     \/ Includes(text, <<"4","2","9">>)
     \/ Includes(text, <<"r","a","t","e"," ","l","i","m","i","t">>)

\* a primary failure of the service-unavailable class
GatewayTransient(err) == ~GatewayRateLimited(err) /\ err.status = Num(503)

\* the call ends: one result or one propagated error
GatewayReturn(outcome) ==
  /\ responses' = Append(responses, outcome)
  /\ pc' = "done"

\* the fallback path: the secondary provider is tried only if it is
\* configured, else the failure is propagated
FallBack(failure) ==
  IF secondaryKey
  THEN /\ secondaryCalls' = secondaryCalls + 1
       /\ pc' = "secondary"
       /\ UNCHANGED responses
  ELSE /\ GatewayReturn(failure)
       /\ UNCHANGED secondaryCalls

GatewayPrompts == {Sample.Hi, Sample.Student}

\* the gateway is called: the primary is tried, or skipped when it has no
\* key; with no provider configured the call fails at once
GatewayCall(p) ==
  /\ pc = "received"
  /\ prompt' = <<p>>
  /\ IF apiKey
     THEN /\ providerCalls' = providerCalls + 1
          /\ pc' = "primary"
          /\ UNCHANGED <<responses, secondaryCalls>>
     ELSE /\ FallBack(GatewayFailure("NoProvider", Undefined))
          /\ UNCHANGED providerCalls
  /\ UNCHANGED <<variant, apiKey, db, jobs, secondaryKey, body, rollNo, subjectName, folder, subject,
                 fetchCalls, fetched, generated, thrown, logs, parseInput, parseOutput>>

\* the primary answers: non-empty text is the result, empty text a failure
PrimaryResolve(text) ==
  /\ pc = "primary"
  /\ generated' = <<text>>
  /\ IF Truthy(text)
     THEN GatewayReturn(GatewayResult(text, "primary")) /\ UNCHANGED secondaryCalls
     ELSE FallBack(GatewayFailure("EmptyText", Undefined))
  /\ UNCHANGED <<variant, apiKey, db, jobs, secondaryKey, body, rollNo, subjectName, folder, subject,
                 prompt, providerCalls, fetchCalls, fetched, thrown, logs,
                 parseInput, parseOutput>>

\* the primary fails: a rate limit is propagated with its delay, any other
\* failure is logged and takes the fallback path
PrimaryReject(err) ==
  /\ pc = "primary"
  /\ thrown' = Append(thrown, err)
  /\ IF GatewayRateLimited(err)
     THEN /\ GatewayReturn(GatewayFailure("RateLimited",
                                          Coalesce(parseRetryDelayMs(err), Num(5000))))
          /\ UNCHANGED <<secondaryCalls, logs>>
     ELSE /\ logs' = Append(logs, [tag |-> IF GatewayTransient(err) THEN "primary unavailable"
                                           ELSE "primary failed",
                                   detail |-> <<err>>])
          /\ FallBack(GatewayFailure("Failed", Undefined))
  /\ UNCHANGED <<variant, apiKey, db, jobs, secondaryKey, body, rollNo, subjectName, folder, subject,
                 prompt, providerCalls, fetchCalls, fetched, generated,
                 parseInput, parseOutput>>

\* a secondary answer returned under the primary's tag
SecondaryResolveAsPrimary(text) ==
  /\ pc = "secondary"
  /\ generated' = Append(generated, text)
  /\ GatewayReturn(IF Truthy(text) THEN GatewayResult(text, "primary")
                   ELSE GatewayFailure("EmptyText", Undefined))
  /\ UNCHANGED <<variant, apiKey, db, jobs, secondaryKey, secondaryCalls, body, rollNo, subjectName,
                 folder, subject, prompt, providerCalls, fetchCalls, fetched, thrown, logs,
                 parseInput, parseOutput>>

\* the secondary answers: non-empty text is the result, empty text a failure
SecondaryResolve(text) ==
  /\ pc = "secondary"
  /\ generated' = Append(generated, text)
  /\ GatewayReturn(IF Truthy(text) THEN GatewayResult(text, "secondary")
                   ELSE GatewayFailure("EmptyText", Undefined))
  /\ UNCHANGED <<variant, apiKey, db, jobs, secondaryKey, secondaryCalls, body, rollNo, subjectName,
                 folder, subject, prompt, providerCalls, fetchCalls, fetched, thrown, logs,
                 parseInput, parseOutput>>

\* the secondary fails: that failure is propagated
SecondaryReject(err) ==
  /\ pc = "secondary"
  /\ thrown' = Append(thrown, err)
  /\ GatewayReturn(GatewayFailure("Failed", Undefined))
  /\ UNCHANGED <<variant, apiKey, db, jobs, secondaryKey, secondaryCalls, body, rollNo, subjectName,
                 folder, subject, prompt, providerCalls, fetchCalls, fetched, generated, logs,
                 parseInput, parseOutput>>

InitGateway ==
  /\ variant = "gateway"
  /\ apiKey \in BOOLEAN
  /\ secondaryKey \in BOOLEAN
  /\ secondaryCalls = 0
  /\ db = EmptyDb
  /\ jobs = <<>>
  /\ body = Body(Undefined, Undefined, Undefined, Undefined, Undefined)
  /\ pc = "received"
  /\ rollNo = Undefined
  /\ subjectName = Undefined
  /\ folder = <<>>
  /\ subject = <<>>
  /\ prompt = <<>>
  /\ responses = <<>>
  /\ providerCalls = 0
  /\ fetchCalls = 0
  /\ fetched = <<>>
  /\ generated = <<>>
  /\ thrown = <<>>
  /\ logs = <<>>
  /\ parseInput = <<>>
  /\ parseOutput = <<>>

NextGateway ==
  \/ \E p \in GatewayPrompts : GatewayCall(p)
  \/ \E text \in GeneratedTexts : PrimaryResolve(text)
  \/ \E err \in ProviderErrors : PrimaryReject(err)
  \/ \E text \in GeneratedTexts : SecondaryResolve(text)
  \/ \E err \in ProviderErrors : SecondaryReject(err)

SpecGateway == InitGateway /\ [][NextGateway]_vars

\* ------------------------------------------------------------------ clubs
\* The club routes of src/club.js on one Club collection. findById and save
\* of one request are taken as one step: requests come one after another.

MaxMembers == 3

ClubEmails == {"president@cmrit", "asha@cmrit", "ravi@cmrit"}

\* req.body of the club routes
ClubRequest(op, name, presidentEmail, clubId, studentEmail) ==
  [op |-> op, name |-> name, presidentEmail |-> presidentEmail,
   clubId |-> clubId, studentEmail |-> studentEmail]

\* res.status(status).json({ message })
DbResponse(status, message) == [status |-> status, message |-> message]

\* a request on the database is answered: nothing of the chat handlers moves
Handled(req, r) ==
  /\ body' = req
  /\ responses' = <<r>>
  /\ UNCHANGED <<variant, apiKey, secondaryKey, secondaryCalls, pc, rollNo, subjectName,
                 folder, subject, prompt, providerCalls, fetchCalls, fetched, generated,
                 thrown, logs, parseInput, parseOutput>>

\* array.includes(x)
SeqIncludes(seq, x) == \E i \in DOMAIN seq : seq[i] = x

\* POST /create
ClubCreate(name, presidentEmail) ==
  /\ IF name = "" \/ presidentEmail = ""
     THEN /\ Handled(ClubRequest("create", name, presidentEmail, 0, ""),
                     DbResponse(400, "Club name and president email required"))
          /\ UNCHANGED db
     ELSE IF \E i \in DOMAIN db.clubs : db.clubs[i].name = name
     \* name is unique: Club.create rejects and the catch answers
     THEN /\ Handled(ClubRequest("create", name, presidentEmail, 0, ""),
                     DbResponse(500, "E11000 duplicate key error"))
          /\ UNCHANGED db
     ELSE /\ Handled(ClubRequest("create", name, presidentEmail, 0, ""),
                     DbResponse(200, "Club created"))
          \* mongoose gives the array path pendingRequests [] when it is not set
          /\ db' = [db EXCEPT !.clubs = Append(@, [name |-> name,
                                                   presidentEmail |-> presidentEmail,
                                                   members |-> <<presidentEmail>>,
                                                   pendingRequests |-> <<>>])]
  /\ UNCHANGED jobs

\* POST /request-join
RequestJoin(clubId, studentEmail) ==
  /\ LET req == ClubRequest("request-join", "", "", clubId, studentEmail)
     IN IF clubId \notin DOMAIN db.clubs
        THEN Handled(req, DbResponse(404, "Club not found")) /\ UNCHANGED db
        ELSE IF SeqIncludes(db.clubs[clubId].members, studentEmail)
        THEN Handled(req, DbResponse(400, "Already a member")) /\ UNCHANGED db
        ELSE /\ Handled(req, DbResponse(200, "Join request sent"))
             /\ IF ~SeqIncludes(db.clubs[clubId].pendingRequests, studentEmail)
                THEN db' = [db EXCEPT !.clubs[clubId].pendingRequests = Append(@, studentEmail)]
                ELSE UNCHANGED db
  /\ UNCHANGED jobs

\* an approval that does not ask who approves
ApproveMemberByAnyone(clubId, studentEmail, presidentEmail) ==
  /\ LET req == ClubRequest("approve-member", "", presidentEmail, clubId, studentEmail)
     IN IF clubId \notin DOMAIN db.clubs
        THEN Handled(req, DbResponse(404, "Club not found")) /\ UNCHANGED db
        ELSE /\ Len(db.clubs[clubId].members) < MaxMembers
             /\ Handled(req, DbResponse(200, "Member approved"))
             /\ db' = [db EXCEPT
                         !.clubs[clubId].pendingRequests = SelectSeq(@, LAMBDA e : e # studentEmail),
                         !.clubs[clubId].members = Append(@, studentEmail)]
  /\ UNCHANGED jobs

\* POST /approve-member
ApproveMember(clubId, studentEmail, presidentEmail) ==
  /\ LET req == ClubRequest("approve-member", "", presidentEmail, clubId, studentEmail)
     IN IF clubId \notin DOMAIN db.clubs
        THEN Handled(req, DbResponse(404, "Club not found")) /\ UNCHANGED db
        ELSE IF db.clubs[clubId].presidentEmail # presidentEmail
        THEN Handled(req, DbResponse(403, "Only president can approve")) /\ UNCHANGED db
        ELSE /\ Len(db.clubs[clubId].members) < MaxMembers
             /\ Handled(req, DbResponse(200, "Member approved"))
             /\ db' = [db EXCEPT
                         !.clubs[clubId].pendingRequests = SelectSeq(@, LAMBDA e : e # studentEmail),
                         !.clubs[clubId].members = Append(@, studentEmail)]
  /\ UNCHANGED jobs

\* the database routes start on an empty database, no request under way
InitDb ==
  /\ variant = "none"
  /\ apiKey = TRUE
  /\ secondaryKey = FALSE
  /\ secondaryCalls = 0
  /\ db = EmptyDb
  /\ jobs = <<>>
  /\ body = Body(Undefined, Undefined, Undefined, Undefined, Undefined)
  /\ pc = "idle"
  /\ rollNo = Undefined
  /\ subjectName = Undefined
  /\ folder = <<>>
  /\ subject = <<>>
  /\ prompt = <<>>
  /\ responses = <<>>
  /\ providerCalls = 0
  /\ fetchCalls = 0
  /\ fetched = <<>>
  /\ generated = <<>>
  /\ thrown = <<>>
  /\ logs = <<>>
  /\ parseInput = <<>>
  /\ parseOutput = <<>>

\* a club's id is its position in db.clubs; id 2 is never given to a club
NextClub ==
  \/ \E name \in {"", "chess"}, presidentEmail \in {"", "president@cmrit"} :
       ClubCreate(name, presidentEmail)
  \/ \E clubId \in 1..2, studentEmail \in ClubEmails : RequestJoin(clubId, studentEmail)
  \/ \E clubId \in 1..2, studentEmail \in ClubEmails, presidentEmail \in ClubEmails :
       ApproveMember(clubId, studentEmail, presidentEmail)

SpecClub == InitDb /\ [][NextClub]_vars

\* ------------------------------------------------------------- attendance
\* POST /api/teacher/mark-attendance of src/server.js on the Attendance
\* collection. The handler awaits deleteMany and then insertMany: another
\* request can run between the two.

MaxJobs == 2

\* req.body: slot 0 and records undefined are the missing fields
MarkRequests ==
  [mentorTeacherEmail : {"mentor@cmrit"},
   date : {"2026-01-05"},
   slot : 0..2,
   subject : {<<"O","S"," ">>},
   records : {Undefined,
              Arr(<<[studentEmail |-> "asha@cmrit", status |-> "present"]>>),
              Arr(<<[studentEmail |-> "asha@cmrit", status |-> "absent"],
                    [studentEmail |-> "ravi@cmrit", status |-> "present"]>>)}]

\* records.map(r => ({ studentEmail, date, slot: Number(slot), status, subject: subject.trim(), mentorTeacherEmail }))
MarkDocs(req) ==
  [i \in DOMAIN req.records.v |->
     [studentEmail |-> req.records.v[i].studentEmail, date |-> req.date, slot |-> req.slot,
      status |-> req.records.v[i].status, subject |-> Trim(req.subject),
      mentorTeacherEmail |-> req.mentorTeacherEmail]]

\* the filter { mentorTeacherEmail, date, slot: Number(slot) }
MarkKeyOf(doc, req) ==
  /\ doc.mentorTeacherEmail = req.mentorTeacherEmail
  /\ doc.date = req.date
  /\ doc.slot = req.slot

\* the handler up to the end of deleteMany
MarkReceive(req) ==
  /\ Len(jobs) < MaxJobs
  /\ IF \/ req.mentorTeacherEmail = "" \/ req.date = "" \/ req.slot = 0
        \/ req.subject = <<>> \/ ~Truthy(req.records)
     THEN /\ Handled(req, DbResponse(400, "All fields are required"))
          /\ UNCHANGED <<db, jobs>>
     ELSE /\ db' = [db EXCEPT !.attendance = SelectSeq(@, LAMBDA doc : ~MarkKeyOf(doc, req))]
          /\ jobs' = Append(jobs, req)
          /\ UNCHANGED <<variant, apiKey, secondaryKey, secondaryCalls, body, pc, rollNo,
                         subjectName, folder, subject, prompt, responses, providerCalls,
                         fetchCalls, fetched, generated, thrown, logs, parseInput, parseOutput>>

\* the rest of the handler of the request jobs[j]: insertMany and the answer
MarkInsert(j) ==
  /\ j \in DOMAIN jobs
  /\ db' = [db EXCEPT !.attendance = @ \o MarkDocs(jobs[j])]
  /\ jobs' = [i \in 1..(Len(jobs) - 1) |-> IF i < j THEN jobs[i] ELSE jobs[i + 1]]
  /\ Handled(jobs[j], DbResponse(200, "Attendance saved"))

NextAttendance ==
  \/ \E req \in MarkRequests : MarkReceive(req)
  \/ \E j \in 1..MaxJobs : MarkInsert(j)

SpecAttendance == InitDb /\ [][NextAttendance]_vars

\* ----------------------------------------------------------- exam folders
\* The teacher routes of src/club.js on the ExamFolder collection. A folder's
\* id is its position in db.folders, a subject's id its position in the
\* folder's subjects. create-folder awaits findOne and then create: another
\* request can run between the two.

MaxScripts == 1

\* const normalize = (s) => String(s || "").trim()
normalize(s) == Trim(JsString(Or(s, Str(<<>>))))

\* req.params, req.body and req.files of the teacher routes
FolderRequest(op, folderId, subjectId, fields, files) ==
  [op |-> op, folderId |-> folderId, subjectId |-> subjectId, fields |-> fields,
   files |-> files]

\* ExamFolder.findOne({ studentRollNo, mentorTeacherEmail, examName }), as a set of ids
FindFolder(roll, teacherEmail, exName) ==
  {i \in DOMAIN db.folders :
     /\ db.folders[i].studentRollNo = roll
     /\ db.folders[i].mentorTeacherEmail = teacherEmail
     /\ db.folders[i].examName = exName}

\* POST /teacher/create-folder up to the end of findOne; a folder found is returned
CreateFolderReceive(fields) ==
  /\ Len(jobs) < MaxJobs
  /\ LET req == FolderRequest("create-folder", 0, 0, fields, <<>>)
         roll == normalize(fields.studentRollNo)
         teacherEmail == ToLowerCase(normalize(fields.mentorTeacherEmail))
         exName == normalize(fields.examName)
     IN IF roll = <<>> \/ teacherEmail = <<>> \/ exName = <<>>
        THEN /\ Handled(req, DbResponse(400, "studentRollNo, mentorTeacherEmail, examName are required"))
             /\ UNCHANGED <<db, jobs>>
        ELSE IF FindFolder(roll, teacherEmail, exName) # {}
        THEN /\ Handled(req, [status |-> 200, message |-> "Folder ready",
                              folder |-> db.folders[Min(FindFolder(roll, teacherEmail, exName))]])
             /\ UNCHANGED <<db, jobs>>
        ELSE /\ jobs' = Append(jobs, req)
             /\ UNCHANGED <<db, variant, apiKey, secondaryKey, secondaryCalls, body, pc, rollNo,
                            subjectName, folder, subject, prompt, responses, providerCalls,
                            fetchCalls, fetched, generated, thrown, logs, parseInput, parseOutput>>

\* the rest of create-folder for the request jobs[j], which found no folder:
\* ExamFolder.create and the answer
CreateFolderCreate(j) ==
  /\ j \in DOMAIN jobs
  /\ LET fields == jobs[j].fields
         created == [studentRollNo |-> normalize(fields.studentRollNo),
                     mentorTeacherEmail |-> ToLowerCase(normalize(fields.mentorTeacherEmail)),
                     examName |-> normalize(fields.examName),
                     subjects |-> <<>>]
     IN /\ db' = [db EXCEPT !.folders = Append(@, created)]
        /\ Handled(jobs[j], [status |-> 200, message |-> "Folder ready", folder |-> created])
  /\ jobs' = [i \in 1..(Len(jobs) - 1) |-> IF i < j THEN jobs[i] ELSE jobs[i + 1]]

\* an upsert that looks the subject up by its exact name
UpsertSubjectExactName(folderId, fields) ==
  /\ LET req == FolderRequest("upsert-subject", folderId, 0, fields, <<>>)
         sName == normalize(fields.subjectName)
         markNum == fields.marksObtained.v
         maxNum == IF fields.maxMarks.t \notin {"undefined", "null"} THEN fields.maxMarks.v ELSE 100
     IN IF sName = <<>> \/ fields.marksObtained.t \in {"undefined", "null"}
        THEN Handled(req, DbResponse(400, "subjectName and marksObtained are required"))
             /\ UNCHANGED db
        ELSE IF folderId \notin DOMAIN db.folders
        THEN Handled(req, DbResponse(404, "Exam folder not found")) /\ UNCHANGED db
        ELSE LET subjects == db.folders[folderId].subjects
                 hits == {i \in DOMAIN subjects :
                            subjects[i].subjectName = sName}
             IN /\ Handled(req, DbResponse(200, "Subject saved"))
                /\ IF hits = {}
                   THEN db' = [db EXCEPT !.folders[folderId].subjects =
                                           Append(@, [subjectName |-> sName, marksObtained |-> markNum,
                                                      maxMarks |-> maxNum, scripts |-> <<>>])]
                   ELSE db' = [db EXCEPT !.folders[folderId].subjects[Min(hits)].marksObtained = markNum,
                                         !.folders[folderId].subjects[Min(hits)].maxMarks = maxNum]
  /\ UNCHANGED jobs

\* POST /teacher/:folderId/upsert-subject
UpsertSubject(folderId, fields) ==
  /\ LET req == FolderRequest("upsert-subject", folderId, 0, fields, <<>>)
         sName == normalize(fields.subjectName)
         markNum == fields.marksObtained.v
         maxNum == IF fields.maxMarks.t \notin {"undefined", "null"} THEN fields.maxMarks.v ELSE 100
     IN IF sName = <<>> \/ fields.marksObtained.t \in {"undefined", "null"}
        THEN Handled(req, DbResponse(400, "subjectName and marksObtained are required"))
             /\ UNCHANGED db
        ELSE IF folderId \notin DOMAIN db.folders
        THEN Handled(req, DbResponse(404, "Exam folder not found")) /\ UNCHANGED db
        ELSE LET subjects == db.folders[folderId].subjects
                 hits == {i \in DOMAIN subjects :
                            ToLowerCase(subjects[i].subjectName) = ToLowerCase(sName)}
             IN /\ Handled(req, DbResponse(200, "Subject saved"))
                /\ IF hits = {}
                   THEN db' = [db EXCEPT !.folders[folderId].subjects =
                                           Append(@, [subjectName |-> sName, marksObtained |-> markNum,
                                                      maxMarks |-> maxNum, scripts |-> <<>>])]
                   ELSE db' = [db EXCEPT !.folders[folderId].subjects[Min(hits)].marksObtained = markNum,
                                         !.folders[folderId].subjects[Min(hits)].maxMarks = maxNum]
  /\ UNCHANGED jobs

\* POST /teacher/:folderId/:subjectId/upload-scripts
UploadScripts(folderId, subjectId, files) ==
  /\ LET req == FolderRequest("upload-scripts", folderId, subjectId, <<>>, files)
     IN IF files = <<>>
        THEN Handled(req, DbResponse(400, "No scripts uploaded")) /\ UNCHANGED db
        ELSE IF folderId \notin DOMAIN db.folders
        THEN Handled(req, DbResponse(404, "Exam folder not found")) /\ UNCHANGED db
        ELSE IF subjectId \notin DOMAIN db.folders[folderId].subjects
        THEN Handled(req, DbResponse(404, "Subject not found")) /\ UNCHANGED db
        ELSE /\ Len(db.folders[folderId].subjects[subjectId].scripts) < MaxScripts
             /\ Handled(req, DbResponse(200, "Scripts uploaded"))
             /\ db' = [db EXCEPT !.folders[folderId].subjects[subjectId].scripts = @ \o files]
  /\ UNCHANGED jobs

NextFolders ==
  \/ \E fields \in [studentRollNo : {Str(<<" ","2","1"," ">>), Str(<<" ">>)},
                     mentorTeacherEmail : {Str(<<"T","@","x">>), Str(<<"t","@","x">>)},
                     examName : {Str(<<"M","i","d">>), Undefined}] :
       CreateFolderReceive(fields)
  \/ \E j \in 1..MaxJobs : CreateFolderCreate(j)
  \* id 9 is never given to a folder or to a subject
  \/ \E folderId \in {1, 9},
          fields \in {[subjectName |-> Str(<<"O","S">>), marksObtained |-> Num(10), maxMarks |-> Undefined],
                      [subjectName |-> Str(<<" ","o","s"," ">>), marksObtained |-> Num(20), maxMarks |-> Num(50)],
                      [subjectName |-> Str(<<"D","B">>), marksObtained |-> Num(10), maxMarks |-> Undefined],
                      [subjectName |-> Str(<<"D","B">>), marksObtained |-> Num(20), maxMarks |-> Num(50)],
                      [subjectName |-> Str(<<" ">>), marksObtained |-> Num(10), maxMarks |-> Undefined],
                      [subjectName |-> Str(<<"O","S">>), marksObtained |-> Undefined, maxMarks |-> Undefined]} :
       UpsertSubject(folderId, fields)
  \/ \E folderId \in {1, 9}, subjectId \in {1, 9}, files \in {<<>>, <<"a.pdf">>} :
       UploadScripts(folderId, subjectId, files)

SpecFolders == InitDb /\ [][NextFolders]_vars

\* ================================================================== claims

\* the handlers whose catch block is the error classifier (handleGeminiError
\* or the inline catch); the embedded /api/chat has a catch of its own
ClassifierVariants == Variants \ {ChatEmbedded}

\* the one response of a finished request, and the error its catch received
TheResponse == responses[1]
TheError == thrown[1]
Caught == pc = "done" /\ thrown # <<>>

\* the message text of an error, "" when it has none
MessageText(err) == IF err.message.t = "string" THEN err.message.v ELSE <<>>

\* the text a response shows the user, under message or under error
ShownText(r) ==
  IF r.message.t = "string" THEN r.message.v
  ELSE IF r.error.t = "string" THEN r.error.v
  ELSE <<>>

Txt429 == <<"4","2","9">>
TxtRateLimitWords == <<"r","a","t","e"," ","l","i","m","i","t">>
TxtMisconfiguredWord == <<"m","i","s","c","o","n","f","i","g","u","r","e","d">>

\* the 429 body the contract describes for a delay of ms milliseconds
RateLimitBody(ms) ==
  Response(429, Str(Txt.RateLimitPrefix \o DecimalString((ms + 999) \div 1000) \o <<"s", ".">>),
           Undefined, Undefined, "RATE_LIMIT", Num(ms))

\* C1: every caught error whose status or code is the number 429, or whose
\* message contains "429", is answered 429 with type RATE_LIMIT, retryAfterMs
\* the parsed delay (5000 when the parser returns null) and the message showing
\* ceil(retryAfterMs / 1000) seconds.
C1_RateLimitContract ==
  (/\ Caught
   /\ variant \in ClassifierVariants
   /\ \/ TheError.status = Num(429)
      \/ TheError.code = Num(429)
      \/ Includes(MessageText(TheError), Txt429))
  => TheResponse = RateLimitBody(IF parseRetryDelayMs(TheError) # Null
                                 THEN parseRetryDelayMs(TheError).v ELSE 5000)

\* whether text, trimmed, has the form <digits>[.<digits>]s, the suffix in either case
IsDuration(text) ==
  LET t == Trim(text)
      n == Len(t)
  IN /\ n >= 2
     /\ t[n] \in {"s", "S"}
     /\ \E k \in 1..(n - 1) :
          /\ \A i \in 1..k : IsDigit(t[i])
          /\ \/ k = n - 1
             \/ /\ t[k + 1] = "."
                /\ k + 2 <= n - 1
                /\ \A i \in (k + 2)..(n - 1) : IsDigit(t[i])

RECURSIVE DecimalValue(_)
DecimalValue(ds) ==
  IF ds = <<>> THEN 0 ELSE 10 * DecimalValue(SubSeq(ds, 1, Len(ds) - 1)) + DigitValue(ds[Len(ds)])

\* ceil(value * 1000) of a duration text, in exact decimal arithmetic
ExactMs(text) ==
  LET t == Trim(text)
      number == SubSeq(t, 1, Len(t) - 1)
      dots == {i \in DOMAIN number : number[i] = "."}
      whole == IF dots = {} THEN number ELSE SubSeq(number, 1, Min(dots) - 1)
      frac == IF dots = {} THEN <<>> ELSE SubSeq(number, Min(dots) + 1, Len(number))
      scale == Pow(10, Len(frac))
  IN 1000 * DecimalValue(whole) + (1000 * DecimalValue(frac) + scale - 1) \div scale

\* the detail list of the parser's input, <<>> when it reads none
InputList == IF DetailsOf(parseInput[1]).t = "array" THEN DetailsOf(parseInput[1]).v ELSE <<>>
\* the positions of the entries tagged as retry info, and of those among them
\* whose delay is a string of the duration form
Tagged == {i \in DOMAIN InputList : InputList[i].t = "object" /\ InputList[i].atype = RetryInfoType}
WellFormed ==
  {i \in Tagged : InputList[i].retryDelay.t = "string" /\ IsDuration(InputList[i].retryDelay.v)}

\* C2: the parser is total; for a retry-info entry whose trimmed retryDelay has
\* the form <number>s it returns ceil(value * 1000), and for every input
\* without such an entry it returns null.
C2_ParserContract ==
  parseOutput # <<>> =>
    /\ parseOutput[1].t \in {"number", "null"}
    /\ (Cardinality(Tagged) = 1 /\ WellFormed # {})
         => parseOutput[1] = Num(ExactMs(InputList[Min(WellFormed)].retryDelay.v))
    /\ WellFormed = {} => parseOutput[1] = Null

\* C3: with several retry-info entries the result is the delay of the first
\* entry whose delay has the duration form; an earlier malformed entry does
\* not hide a later well-formed one.
C3_FirstWellFormedWins ==
  (parseOutput # <<>> /\ WellFormed # {})
  => parseOutput[1] = DelayOfEntry(InputList[Min(WellFormed)])

\* C4: every caught error whose message contains "rate limit" is answered 429
\* with type RATE_LIMIT, also without a 429 status, code or message.
C4_RateLimitWords ==
  (/\ Caught
   /\ variant \in ClassifierVariants
   /\ Includes(MessageText(TheError), TxtRateLimitWords))
  => TheResponse.status = 429 /\ TheResponse.type = "RATE_LIMIT"

\* C5: the classifier answers every caught error once, with 429 or with 500;
\* an error not answered 429 gets 500, type SERVER_ERROR and the error's
\* message when it is non-empty, else "Chat service error".
C5_ServerErrorDefault ==
  (Caught /\ variant \in ClassifierVariants)
  => /\ Len(responses) = 1
     /\ TheResponse.status \in {429, 500}
     /\ TheResponse.status # 429 =>
          /\ TheResponse.status = 500
          /\ TheResponse.type = "SERVER_ERROR"
          /\ TheResponse.message = Str(IF MessageText(TheError) # <<>>
                                       THEN MessageText(TheError) ELSE Txt.ChatServiceError)

\* an error with no message was answered 500 with the fixed fallback
C5_Witness ==
  /\ Caught
  /\ variant \in ClassifierVariants
  /\ TheError.message = Undefined
  /\ TheResponse.status = 500
  /\ TheResponse.message = Str(Txt.ChatServiceError)

\* C6: when a provider call or the records call fails, the text shown to the
\* user never contains the upstream raw text: the provider error's message or
\* the collaborator's own message.
C6_NoRawErrorText ==
  /\ (Caught /\ providerCalls + fetchCalls > 0 /\ MessageText(TheError) # <<>>)
       => ~Includes(ShownText(TheResponse), MessageText(TheError))
  /\ (/\ pc = "done"
      /\ fetched # <<>>
      /\ ~fetched[1].ok
      /\ fetched[1].data.message.t = "string"
      /\ fetched[1].data.message.v # <<>>)
       => ~Includes(ShownText(TheResponse), fetched[1].data.message.v)

\* the /chat and /exam-summary handlers of the routers
RouterVariants == {ChatMain, ChatSecond, ChatPart, ExamMain, ExamSecond}

\* C7: a /chat or /exam-summary request never has two responses and its
\* handler is done exactly when it has one; a handler that has not responded
\* has either not started or waits for one call, and goes on whether that
\* call resolves or rejects.
C7_ExactlyOneResponse ==
  variant \in RouterVariants =>
    /\ Len(responses) <= 1
    /\ (pc = "done") = (Len(responses) = 1)
    /\ pc \in {"received", "fetching", "generating", "done"}
    /\ pc = "fetching" =>
         /\ ENABLED (\E answer \in FetchAnswers : FetchResolve(answer))
         /\ ENABLED (\E err \in FetchErrors : FetchReject(err))
    /\ pc = "generating" =>
         /\ ENABLED (\E text \in GeneratedTexts : GenerateResolve(text))
         /\ ENABLED (\E err \in ProviderErrors : GenerateReject(err))

\* an /exam-summary request whose provider call threw has its one response
C7_Witness ==
  /\ variant \in ExamVariants
  /\ pc = "done"
  /\ fetchCalls = 1
  /\ providerCalls = 1
  /\ thrown # <<>>
  /\ Len(responses) = 1

\* a message that is missing, empty or only whitespace
BlankMessage(message) ==
  \/ message.t \in {"undefined", "null"}
  \/ message.t = "string" /\ \A i \in DOMAIN message.v : IsSpace(message.v[i])

\* C8: in every variant of the chat handler a request with a missing, empty or
\* whitespace-only message makes no provider call and is answered 400
\* "Message required".
C8_MessageRequired ==
  (variant \in ChatVariants /\ BlankMessage(body.message))
  => /\ providerCalls = 0
     /\ pc = "done" => /\ Len(responses) = 1
                       /\ TheResponse.status = 400
                       /\ ShownText(TheResponse) = Txt.MessageRequired

\* a whitespace-only message was answered 400
C8_Witness ==
  /\ variant \in ChatVariants
  /\ body.message = Str(Sample.Blank)
  /\ pc = "done"
  /\ TheResponse.status = 400

\* C9: without the API key every chat endpoint answers a request whose message
\* is a string or is missing with 500 "misconfigured" and calls neither the
\* records endpoint nor the provider, unless input validation answered 400
\* first.
C9_Misconfigured ==
  (pc = "done" /\ ~apiKey /\ body.message.t \in {"undefined", "null", "string"})
  => \/ TheResponse.status = 400
     \/ /\ TheResponse.status = 500
        /\ Includes(ShownText(TheResponse), TxtMisconfiguredWord)
        /\ providerCalls = 0
        /\ fetchCalls = 0

\* rollNo and subjectName as the contract resolves them: the explicit field,
\* and for a missing field the value extracted from message
ResolvedRoll ==
  IF Truthy(body.rollNo) THEN body.rollNo ELSE extractRollAndSubject(body.message).rollNo
ResolvedSubject ==
  IF Truthy(body.subjectName) THEN body.subjectName
  ELSE extractRollAndSubject(body.message).subjectName

\* C10: /exam-summary answers 400 and makes no records fetch and no provider
\* call whenever rollNo or subjectName is still unresolved after the explicit
\* fields and the values extracted from message; an explicit field is never
\* replaced by an extracted one.  (The handler's first step decides both: a
\* request answered there is done and takes no further step.)
C10_UnresolvedRejected ==
  [][(variant \in ExamVariants /\ pc = "received")
     => /\ (~Truthy(ResolvedRoll) \/ ~Truthy(ResolvedSubject))
             => /\ pc' = "done"
                /\ Len(responses') = 1
                /\ responses'[1].status = 400
                /\ fetchCalls' = 0
                /\ providerCalls' = 0
        /\ Truthy(body.rollNo) => rollNo' = body.rollNo
        /\ Truthy(body.subjectName) => subjectName' = body.subjectName]_vars

\* a free-text message that names a subject but no roll number was answered 400
C10_Witness ==
  /\ variant = ExamMain
  /\ body.rollNo = Undefined
  /\ body.subjectName = Undefined
  /\ body.message = Str(Sample.SubjectOnlyMessage)
  /\ Truthy(subjectName)
  /\ pc = "done"
  /\ TheResponse.status = 400
  /\ fetchCalls = 0

\* whether the n characters of text from i are a roll-number token: 2 digits,
\* 2 to 6 letters, 3 or 4 digits, with no word character on either side
IsRollToken(text, i, n) ==
  /\ i + n - 1 <= Len(text)
  /\ \E k \in 2..6 : \E d \in 3..4 :
       /\ n = 2 + k + d
       /\ \A j \in i..(i + 1) : IsDigit(text[j])
       /\ \A j \in (i + 2)..(i + 1 + k) : IsLetter(text[j])
       /\ \A j \in (i + 2 + k)..(i + n - 1) : IsDigit(text[j])
  /\ (i = 1 \/ ~IsWordChar(text[i - 1]))
  /\ (i + n - 1 = Len(text) \/ ~IsWordChar(text[i + n]))

RollTokens(text) == {t \in (1..Len(text)) \X (7..12) : IsRollToken(text, t[1], t[2])}

\* the first roll-number token of text, upper-cased, and null when it has none
FirstRollToken(text, tokens) ==
  IF tokens = {} THEN Null
  ELSE LET t == CHOOSE t \in tokens : \A u \in tokens : t[1] <= u[1]
       IN Str(ToUpperCase(SubSeq(text, t[1], t[1] + t[2] - 1)))

\* the places where the word "subject" starts, in either case
SubjectKeywords(text) ==
  {p \in 1..(Len(text) - 6) :
     /\ ToLowerCase(SubSeq(text, p, p + 6)) = <<"s","u","b","j","e","c","t">>
     /\ (p = 1 \/ ~IsWordChar(text[p - 1]))}

\* the first place from q on that holds no white space
NextNonSpace(text, q) == Min({j \in q..Len(text) : ~IsSpace(text[j])} \cup {Len(text) + 1})

\* where the word of the phrase starts when the keyword starts at p: after
\* the keyword, white space, one optional ":" or "-", and white space
WordStartFrom(text, q) ==
  NextNonSpace(text, IF q <= Len(text) /\ text[q] \in {":", "-"} THEN q + 1 ELSE q)
WordStart(text, p) == WordStartFrom(text, NextNonSpace(text, p + 7))

\* where a word that starts at b can end: 2 to 25 letters, ampersands and
\* spaces, the last of them at the edge of a word
WordEnds(text, b) ==
  {e \in (b + 1)..Min({b + 24, Len(text)}) :
     /\ \A j \in b..e : IsSubjectChar(text[j])
     /\ IsWordChar(text[e]) # (e < Len(text) /\ IsWordChar(text[e + 1]))}

\* text holds the phrase "subject <word>": after its first "subject" comes a
\* word that starts with a letter
HasSubjectPhraseAt(text, b) ==
  b <= Len(text) /\ IsLetter(text[b]) /\ WordEnds(text, b) # {}
HasSubjectPhrase(text) ==
  SubjectKeywords(text) # {} /\ HasSubjectPhraseAt(text, WordStart(text, Min(SubjectKeywords(text))))

\* the word of the phrase, trimmed
SubjectWordAt(text, b) == Trim(SubSeq(text, b, Max(WordEnds(text, b))))
SubjectWord(text) == SubjectWordAt(text, WordStart(text, Min(SubjectKeywords(text))))

ResolvesMessage(text) ==
  /\ rollNo = FirstRollToken(text, RollTokens(text))
  /\ HasSubjectPhrase(text) => subjectName = Str(SubjectWord(text))

\* C11: from a free-text message the extractor takes rollNo as the first
\* roll-number token, upper-cased, and null when the message has none; when
\* the message holds the phrase "subject <word>", the word being 2 to 25
\* letters, ampersands and spaces, subjectName is that word, trimmed.
C11_MessageResolved ==
  (pc = "extracted" /\ body.message.t = "string") => ResolvesMessage(Trim(body.message.v))

\* "review my paper roll 21CMR001 subject DSA" gave 21CMR001 and DSA
C11_Witness ==
  /\ pc = "extracted"
  /\ body.message = Str(Sample.ReviewMessage)
  /\ rollNo = Str(Sample.Roll1)
  /\ subjectName = Str(Sample.DSA)

\* a roll number as the extractor is to give it: one upper-case token
WellFormedRoll(x) ==
  x.t = "string" /\ IsRollToken(x.v, 1, Len(x.v)) /\ x.v = ToUpperCase(x.v)

\* a subject name as the extractor is to give it: 1 to 25 letters, ampersands
\* and inner spaces
WellFormedSubject(x) ==
  /\ x.t = "string"
  /\ x.v # <<>>
  /\ Len(x.v) <= 25
  /\ \A i \in DOMAIN x.v : IsSubjectChar(x.v[i])
  /\ Trim(x.v) = x.v

\* C12: for every input, text or not, the extractor returns a result in
\* which rollNo is a well-formed roll number or null and subjectName is a
\* well-formed subject name or null.
C12_WellFormedOrNull ==
  pc = "extracted" =>
    /\ rollNo = Null \/ WellFormedRoll(rollNo)
    /\ subjectName = Null \/ WellFormedSubject(subjectName)

\* the records endpoint answered, with success or not
Answered == variant \in ExamVariants /\ fetched # <<>>
TheAnswer == fetched[1]

\* the folders of a successful answer, none when it holds no folder list
AnswerFolders ==
  IF TheAnswer.data.folders.t = "array" THEN TheAnswer.data.folders.v ELSE <<>>

\* C13: when the records endpoint answers with success but with zero folders
\* or no folder list, /exam-summary responds 404 "No exam folders found for
\* this roll number" and the provider is not called.
C13_NoFolders ==
  (Answered /\ TheAnswer.ok /\ AnswerFolders = <<>>)
  => /\ pc = "done"
     /\ Len(responses) = 1
     /\ TheResponse.status = 404
     /\ TheResponse.message = Str(Txt.NoFolders)
     /\ providerCalls = 0

\* a successful answer with an empty folder list was answered 404
C13_Witness ==
  /\ Answered
  /\ TheAnswer.ok
  /\ TheAnswer.data.folders = Arr(<<>>)
  /\ pc = "done"
  /\ TheResponse.status = 404

\* two names are the same when their texts agree up to case and to the white
\* space around them
SameName(a, b) ==
  a.t = "string" /\ b.t = "string" /\ ToLowerCase(Trim(a.v)) = ToLowerCase(Trim(b.v))

\* the places of the folders the request asks for: those of the given exam
\* name, every folder when no exam name is given
WantedFolders(folders) ==
  IF Truthy(body.examName)
  THEN {i \in DOMAIN folders : SameName(folders[i].examName, body.examName)}
  ELSE DOMAIN folders

SubjectsOf(f) == IF f.subjects.t = "array" THEN f.subjects.v ELSE <<>>
WantedSubjects(subjects) ==
  {j \in DOMAIN subjects : SameName(subjects[j].subjectName, subjectName)}

\* the request ended with a 404 and without a provider call
NotFound ==
  /\ pc = "done"
  /\ Len(responses) = 1
  /\ TheResponse.status = 404
  /\ providerCalls = 0

SubjectSelected(subjects, wanted) ==
  IF wanted = {} THEN NotFound /\ subject = <<>>
  ELSE subject = <<subjects[Min(wanted)]>> /\ providerCalls = 1

FolderSelected(folders, wanted) ==
  IF wanted = {} THEN NotFound /\ folder = <<>>
  ELSE /\ folder = <<folders[Min(wanted)]>>
       /\ SubjectSelected(SubjectsOf(folders[Min(wanted)]),
                          WantedSubjects(SubjectsOf(folders[Min(wanted)])))

\* C14: from a successful answer with folders, /exam-summary chooses the
\* first folder, in the order of the answer, whose name is the given examName
\* up to case and surrounding white space, or the first folder when no
\* examName is given; in that folder it chooses the first subject whose name
\* is subjectName up to case; with no such folder or subject it responds 404
\* and does not call the provider.
C14_Selection ==
  (Answered /\ TheAnswer.ok /\ AnswerFolders # <<>>)
  => FolderSelected(AnswerFolders, WantedFolders(AnswerFolders))

\* asked for " mid-2", the handler took "Mid-2", the second of three folders
\* and the first of the two of that name
C14_Witness ==
  /\ Answered
  /\ TheAnswer.ok
  /\ Len(AnswerFolders) = 3
  /\ body.examName = Str(Sample.Mid2Loose)
  /\ WantedFolders(AnswerFolders) = {2, 3}
  /\ folder = <<AnswerFolders[2]>>
  /\ subject # <<>>

\* C15: when the records endpoint answers with a status that is no success,
\* /exam-summary responds with that status and the answer's message, or with
\* "Failed to load exam folders" when the answer has none, and the provider
\* is not called; the response is not the one given for zero folders.
C15_FetchFailurePropagates ==
  (Answered /\ ~TheAnswer.ok)
  => /\ pc = "done"
     /\ Len(responses) = 1
     /\ TheResponse.status = TheAnswer.status
     /\ TheResponse.message = IF Truthy(TheAnswer.data.message)
                              THEN TheAnswer.data.message
                              ELSE Str(Txt.FailedToLoadFolders)
     /\ TheResponse.message # Str(Txt.NoFolders)
     /\ providerCalls = 0

\* an answer of status 404 without a message was passed on with the fixed text
C15_Witness ==
  /\ Answered
  /\ ~TheAnswer.ok
  /\ TheAnswer.status = 404
  /\ TheAnswer.data.message = Undefined
  /\ pc = "done"
  /\ TheResponse.status = 404
  /\ TheResponse.message = Str(Txt.FailedToLoadFolders)

\* the links of the first five scripts of a subject, in the order of the answer
FirstFiveLinks(scripts) ==
  TruthyUrls(SubSeq(scripts, 1, Min({5, Len(scripts)})))

\* whether the prompt interpolates the text of value x
Embeds(p, x) == \E i \in DOMAIN p.parts : Trim(p.parts[i]) = Trim(TemplateString(x))

\* C16: in every variant of /exam-summary the prompt embeds the roll number,
\* the exam name, the subject name, the marks and the maximum marks, and the
\* links of the first five scripts of the subject in the order of the answer,
\* and no other link.
C16_PromptLinks ==
  (variant \in ExamVariants /\ prompt # <<>>)
  => /\ Embeds(prompt[1], rollNo)
     /\ Embeds(prompt[1], folder[1].examName)
     /\ Embeds(prompt[1], subject[1].subjectName)
     /\ Embeds(prompt[1], subject[1].marksObtained)
     /\ Embeds(prompt[1], subject[1].maxMarks)
     /\ Len(prompt[1].scriptLinks) <= 5
     /\ prompt[1].scriptLinks = FirstFiveLinks(IF subject[1].scripts.t = "array"
                                               THEN subject[1].scripts.v ELSE <<>>)
     /\ \A i \in DOMAIN prompt[1].scriptLinks :
          \E j \in DOMAIN prompt[1].parts :
            Includes(prompt[1].parts[j], prompt[1].scriptLinks[i])

\* the one outcome of a finished gateway call
GatewayDone == pc = "done" /\ variant = "gateway"
TheOutcome == responses[1]

\* the primary was called and answered non-empty text: nothing was thrown, so
\* the first text recorded is the primary's
PrimarySucceeded ==
  /\ providerCalls = 1
  /\ thrown = <<>>
  /\ generated # <<>>
  /\ Truthy(generated[1])

ProviderFailed == Caught /\ providerCalls = 1

\* the provider's error reports a rate limit: a 429 status or code, or a
\* message that names one
ReportsRateLimit(err) ==
  \/ err.status = Num(429)
  \/ err.code = Num(429)
  \/ Includes(MessageText(err), Txt429)
  \/ Includes(MessageText(err), TxtRateLimitWords)

\* C18: a request whose provider call fails reporting a rate limit is answered
\* once, 429 with a numeric retryAfterMs; the provider was called once and no
\* secondary provider was called.
C18_RateLimitPropagates ==
  (/\ ProviderFailed
   /\ variant \in ClassifierVariants
   /\ ReportsRateLimit(TheError))
  => /\ Len(responses) = 1
     /\ TheResponse.status = 429
     /\ TheResponse.retryAfterMs.t = "number"
     /\ providerCalls = 1
     /\ secondaryCalls = 0


\* the provider call of a finished request resolved with no text or with ""
EmptyGenerated == pc = "done" /\ generated # <<>> /\ ~Truthy(generated[1])

\* C19: a request whose provider call resolves with empty text is answered as
\* a failure: no handler answers it 200.
C19_EmptyTextIsFailure ==
  EmptyGenerated => \A i \in DOMAIN responses : responses[i].status # 200


\* the primary was called and failed with a service-unavailable error, and
\* the secondary then answered non-empty text: the one error thrown is the
\* primary's, the one text recorded the secondary's
SecondarySucceededAfterTransient ==
  /\ providerCalls = 1
  /\ Len(thrown) = 1
  /\ GatewayTransient(thrown[1])
  /\ Len(generated) = 1
  /\ Truthy(generated[1])

CallsStarted == fetchCalls + providerCalls + secondaryCalls
CallsSettled ==
  Len(fetched) + Len(generated) + Cardinality({i \in DOMAIN thrown : thrown[i] # TrimTypeError})

\* C21: within one request each provider is called at most once and the
\* records endpoint at most once; at most one outbound call is in flight at
\* any time; a secondary call starts only after the primary call has come
\* back; and in /exam-summary the provider call starts only after the records
\* fetch has answered successfully and a folder and a subject were selected.
C21_SequentialCalls ==
  /\ providerCalls <= 1
  /\ secondaryCalls <= 1
  /\ fetchCalls <= 1
  /\ CallsStarted - CallsSettled \in {0, 1}
  /\ (secondaryCalls = 1 /\ providerCalls = 1) => CallsSettled >= 1
  /\ (variant \in ExamVariants /\ providerCalls = 1)
     => /\ fetchCalls = 1
        /\ fetched # <<>>
        /\ fetched[1].ok
        /\ folder # <<>>
        /\ subject # <<>>

\* C21 witness: /exam-summary waits for the provider, its one call in flight,
\* the records fetch answered and the folder and the subject selected.
C21_Witness ==
  /\ variant \in ExamVariants
  /\ pc = "generating"
  /\ fetchCalls = 1
  /\ providerCalls = 1
  /\ CallsStarted - CallsSettled = 1
  /\ folder # <<>>
  /\ subject # <<>>


\* no value twice in a list
NoDuplicates(seq) == \A i, j \in DOMAIN seq : seq[i] = seq[j] => i = j

\* C22: in every club, after any sequence of create, request-join and
\* approve-member requests, no email is twice in members, none is twice in
\* pendingRequests, and none is in both.
C22_MembershipInvariant ==
  \A c \in DOMAIN db.clubs :
    /\ NoDuplicates(db.clubs[c].members)
    /\ NoDuplicates(db.clubs[c].pendingRequests)
    /\ \A e \in ClubEmails :
         ~(SeqIncludes(db.clubs[c].members, e) /\ SeqIncludes(db.clubs[c].pendingRequests, e))

\* the step is an approve-member request on a club that exists
ApproveStep == body'.op = "approve-member" /\ body'.clubId \in DOMAIN db.clubs

\* C23: an approve-member request for an email that has no pending request
\* in the club leaves the club's members as they were.
C23_ApproveNeedsRequest ==
  [][(/\ ApproveStep
      /\ ~SeqIncludes(db.clubs[body'.clubId].pendingRequests, body'.studentEmail))
     => db'.clubs[body'.clubId].members = db.clubs[body'.clubId].members]_vars

\* C24: an approve-member request for an unknown club is answered 404 and
\* changes nothing stored; one whose presidentEmail is not the club's is
\* answered 403 and leaves the club's members and pendingRequests as they were.
C24_OnlyPresidentApproves ==
  [][body'.op = "approve-member"
     => /\ body'.clubId \notin DOMAIN db.clubs
           => (responses'[1].status = 404 /\ db' = db)
        /\ (/\ body'.clubId \in DOMAIN db.clubs
            /\ db.clubs[body'.clubId].presidentEmail # body'.presidentEmail)
           => /\ responses'[1].status = 403
              /\ db'.clubs[body'.clubId].members = db.clubs[body'.clubId].members
              /\ db'.clubs[body'.clubId].pendingRequests = db.clubs[body'.clubId].pendingRequests]_vars

\* C24 witness: a student with a pending request approves the request in the
\* president's place, is answered 403 and is still pending, not a member.
C24_Witness ==
  /\ responses # <<>>
  /\ body.op = "approve-member"
  /\ body.clubId \in DOMAIN db.clubs
  /\ body.presidentEmail = body.studentEmail
  /\ responses[1].status = 403
  /\ SeqIncludes(db.clubs[body.clubId].pendingRequests, body.studentEmail)
  /\ ~SeqIncludes(db.clubs[body.clubId].members, body.studentEmail)


\* the stored attendance records of the key of req
MarkStored(req) == SelectSeq(db.attendance, LAMBDA doc : MarkKeyOf(doc, req))

\* C25: whenever no mark-attendance request is under way, the records stored
\* for the key of the request answered last are exactly the records one
\* request submitted, however the delete and insert steps of the requests
\* were interleaved: never the records of two requests together.
C25_ReplacePerKey ==
  (jobs = <<>> /\ responses # <<>> /\ responses[1].status = 200)
  => \E req \in MarkRequests : Truthy(req.records) /\ MarkStored(body) = MarkDocs(req)


\* C26: after any create-folder requests, also two whose lookup and create
\* steps interleave, at most one folder is stored per studentRollNo,
\* lower-cased mentorTeacherEmail and examName.
C26_OneFolderPerKey ==
  \A i, j \in DOMAIN db.folders :
    (/\ db.folders[i].studentRollNo = db.folders[j].studentRollNo
     /\ db.folders[i].mentorTeacherEmail = db.folders[j].mentorTeacherEmail
     /\ db.folders[i].examName = db.folders[j].examName)
    => i = j

\* the subject names of a folder are unique, compared trimmed and in lower case
UniqueSubjects(f) ==
  \A i, j \in DOMAIN f.subjects :
    ToLowerCase(Trim(f.subjects[i].subjectName)) = ToLowerCase(Trim(f.subjects[j].subjectName))
    => i = j

\* the subjects of folder f that the name of an upsert request names
Named(f, fields) ==
  {i \in DOMAIN f.subjects :
     ToLowerCase(Trim(f.subjects[i].subjectName)) = ToLowerCase(normalize(fields.subjectName))}

\* C27: after every step the subject names of every folder are unique,
\* compared case-insensitively after trimming; and an upsert-subject request
\* answered 200 that names a subject the folder has leaves the number of
\* subjects, that subject's stored name and scripts, every other subject and
\* every other folder as they were, and sets its marksObtained and maxMarks.
C27_UpsertKeepsSubjects ==
  [][/\ \A f \in DOMAIN db'.folders : UniqueSubjects(db'.folders[f])
     /\ (/\ responses' # <<>>
         /\ body'.op = "upsert-subject"
         /\ responses'[1].status = 200
         /\ Named(db.folders[body'.folderId], body'.fields) # {})
        => LET f == body'.folderId
               before == db.folders[f].subjects
               after == db'.folders[f].subjects
           IN /\ Len(after) = Len(before)
              /\ \A g \in DOMAIN db.folders : g # f => db'.folders[g] = db.folders[g]
              /\ \A k \in DOMAIN before :
                   IF k \in Named(db.folders[f], body'.fields)
                   THEN /\ after[k].subjectName = before[k].subjectName
                        /\ after[k].scripts = before[k].scripts
                        /\ after[k].marksObtained = body'.fields.marksObtained.v
                        /\ after[k].maxMarks = IF body'.fields.maxMarks.t = "number"
                                               THEN body'.fields.maxMarks.v ELSE 100
                   ELSE after[k] = before[k]]_vars

\* C27 witness: subject "OS", which has a script, was updated by a request
\* naming it " os ": it keeps its name and its script and has the new marks,
\* next to a second subject.
C27_Witness ==
  /\ responses # <<>>
  /\ body.op = "upsert-subject"
  /\ body.fields.subjectName = Str(<<" ","o","s"," ">>)
  /\ responses[1].status = 200
  /\ Len(db.folders[body.folderId].subjects) = 2
  /\ \E k \in DOMAIN db.folders[body.folderId].subjects :
       db.folders[body.folderId].subjects[k] =
         [subjectName |-> <<"O","S">>, marksObtained |-> 20, maxMarks |-> 50,
          scripts |-> <<"a.pdf">>]

====
